---- MODULE Spec2Model ----
(***************************************************************************)
(* The doctest script examples/doctest_07 (three-level atom, symbolic):    *)
(* a documentation-test runner executes the examples of __doc__ one after  *)
(* the other.  The symbolic values the examples bind are polynomials in    *)
(* the script's symbols; the runner state records what has been bound,     *)
(* printed and read.                                                       *)
(***************************************************************************)
EXTENDS Integers, Sequences, FiniteSets, TLC

(***************************************************************************)
(* Symbolic expressions.  A symbol is a pair <<tag, payload>>:             *)
(*   <<"s", n>>  the symbol printed as n                                   *)
(*   <<"r", n>>  the symbol n declared real, where <<"s", n>> is complex   *)
(*   <<"c", n>>  conjugate(n), n a complex symbol                          *)
(*   <<"X", n>>  exp(I*n*t)                                                *)
(*   <<"re", z>>, <<"im", z>>  re(z), im(z), z a product of complex symbols*)
(* A monomial is a function from symbols to non-zero integer exponents.    *)
(* A coefficient is the Gaussian rational (re + I*im)/2^k in lowest terms. *)
(* An expression is a set of terms with distinct monomials and non-zero    *)
(* coefficients (the expanded form of a sympy expression).                 *)
(***************************************************************************)
Deg(m, s) == IF s \in DOMAIN m THEN m[s] ELSE 0

MOne == [s \in {} |-> 0]

MPow(s, n) == [x \in {s} |-> n]

MMul(m1, m2) ==
  LET D == DOMAIN m1 \cup DOMAIN m2
  IN  [s \in {x \in D : Deg(m1, x) + Deg(m2, x) # 0} |-> Deg(m1, s) + Deg(m2, s)]

MDrop(m, S) == [s \in DOMAIN m \ S |-> m[s]]

RECURSIVE Pow2(_)
Pow2(n) == IF n = 0 THEN 1 ELSE 2 * Pow2(n - 1)

RECURSIVE CNorm(_, _, _)
CNorm(a, b, k) ==
  IF k > 0 /\ a % 2 = 0 /\ b % 2 = 0
  THEN CNorm(a \div 2, b \div 2, k - 1)
  ELSE [re |-> a, im |-> b, k |-> k]

CZero == [re |-> 0, im |-> 0, k |-> 0]
COne == [re |-> 1, im |-> 0, k |-> 0]
CInt(n) == [re |-> n, im |-> 0, k |-> 0]

CAdd(c, d) ==
  LET K == IF c.k > d.k THEN c.k ELSE d.k
  IN  CNorm(c.re * Pow2(K - c.k) + d.re * Pow2(K - d.k),
            c.im * Pow2(K - c.k) + d.im * Pow2(K - d.k), K)

CMul(c, d) == CNorm(c.re * d.re - c.im * d.im, c.re * d.im + c.im * d.re, c.k + d.k)

CConj(c) == [re |-> c.re, im |-> 0 - c.im, k |-> c.k]

Coef(p, m) == IF \E t \in p : t.m = m THEN (CHOOSE t \in p : t.m = m).c ELSE CZero

PZero == {}
PConst(c) == IF c = CZero THEN {} ELSE {[m |-> MOne, c |-> c]}
PInt(n) == PConst(CInt(n))
POne == PInt(1)
PI == PConst([re |-> 0, im |-> 1, k |-> 0])
PHalf == PConst([re |-> 1, im |-> 0, k |-> 1])
PAtom(s) == {[m |-> MPow(s, 1), c |-> COne]}
PSym(n) == PAtom(<<"s", n>>)

PAdd(p, q) ==
  {t \in {[m |-> m, c |-> CAdd(Coef(p, m), Coef(q, m))] : m \in {t.m : t \in p \cup q}} :
     t.c # CZero}

TermMul(t, q) == {[m |-> MMul(t.m, u.m), c |-> CMul(t.c, u.c)] : u \in q}

RECURSIVE PMul(_, _)
PMul(p, q) ==
  IF p = {} \/ q = {} THEN {}
  ELSE LET t == CHOOSE x \in p : TRUE
       IN  PAdd(TermMul(t, q), PMul(p \ {t}, q))

PNeg(p) == TermMul([m |-> MOne, c |-> CInt(-1)], p)
PSub(p, q) == PAdd(p, PNeg(q))

RECURSIVE PPow(_, _)
PPow(p, n) == IF n = 0 THEN POne ELSE PMul(p, PPow(p, n - 1))

PMul3(p, q, r) == PMul(p, PMul(q, r))

\* 1/p for an expression p that is a single term with coefficient 1 (a product of symbols)
PInv(p) ==
  LET t == CHOOSE x \in p : TRUE
  IN  {[m |-> [s \in DOMAIN t.m |-> 0 - t.m[s]], c |-> t.c]}

(***************************************************************************)
(* exp(n*I*q*t) for an expression q that is a sum of symbols with integer  *)
(* coefficients: the product of the factors exp(I*s*t)^(n*c).              *)
(***************************************************************************)
ExpI(q, n) ==
  LET S == {CHOOSE s \in DOMAIN t.m : TRUE : t \in q}
      c(s) == (CHOOSE t \in q : s \in DOMAIN t.m).c.re
  IN  {[m |-> [x \in {<<"X", s[2]>> : s \in {y \in S : n * c(y) # 0}} |-> n * c(<<"s", x[2]>>)],
        c |-> COne]}

\* the symbols that stand for complex quantities (sympy symbols not declared real)
ComplexNames == {"E_0^1", "E_0^2", "Omega1", "Omega2",
                 "rho12", "rho13", "rho21", "rho23", "rho31", "rho32"}

IsComplexSym(s) == s[1] \in {"s", "c"} /\ s[2] \in ComplexNames

ConjSym(s) ==
  IF s[1] = "s" /\ s[2] \in ComplexNames THEN <<"c", s[2]>>
  ELSE IF s[1] = "c" THEN <<"s", s[2]>>
  ELSE s

\* conjugate of a monomial: complex symbols swap with their conjugates, exp(I*w*t) inverts
MConj(m) ==
  [s \in {ConjSym(x) : x \in DOMAIN m} |->
     IF s[1] = "X" THEN 0 - m[s] ELSE m[ConjSym(s)]]

conjugate(p) == {[m |-> MConj(t.m), c |-> CConj(t.c)] : t \in p}

PPowZ(q, a) == IF a >= 0 THEN PPow(q, a) ELSE PPow(PInv(q), 0 - a)

(***************************************************************************)
(* expr.subs({n: q}): every occurrence of the symbol n is replaced by q,   *)
(* of conjugate(n) by conjugate(q), of exp(I*n*t) by exp(I*q*t).           *)
(***************************************************************************)
SubsTerm(t, n, q) ==
  LET a == Deg(t.m, <<"s", n>>)
      b == Deg(t.m, <<"c", n>>)
      x == Deg(t.m, <<"X", n>>)
      rest == [m |-> MDrop(t.m, {<<"s", n>>, <<"c", n>>, <<"X", n>>}), c |-> t.c]
  IN  TermMul(rest, PMul3(PPowZ(q, a), PPowZ(conjugate(q), b),
                          IF x = 0 THEN POne ELSE ExpI(q, x)))

RECURSIVE PSubs(_, _, _)
PSubs(p, n, q) ==
  IF p = {} THEN {}
  ELSE LET t == CHOOSE x \in p : TRUE
       IN  PAdd(SubsTerm(t, n, q), PSubs(p \ {t}, n, q))

\* Derivative(p, s).doit() for a symbol s
Diff(p, s) ==
  {[m |-> MMul(t.m, MPow(s, -1)), c |-> CMul(CInt(t.m[s]), t.c)] :
     t \in {u \in p : Deg(u.m, s) # 0}}

\* Derivative(p, t).doit(): only the factors exp(I*w*t) depend on t
RECURSIVE DiffT(_)
DiffT(p) ==
  IF p = {} THEN {}
  ELSE LET u == CHOOSE x \in p : TRUE
           DiffTTerm ==
             TermMul(u, {[m |-> MPow(<<"s", x[2]>>, 1), c |-> [re |-> 0, im |-> u.m[x], k |-> 0]] :
                           x \in {y \in DOMAIN u.m : y[1] = "X"}})
       IN  PAdd(DiffTTerm, DiffT(p \ {u}))

(***************************************************************************)
(* re(p) and im(p) as sympy returns them: real factors are pulled out, the *)
(* re or im of a single complex symbol is an atom (re(conjugate(z)) =      *)
(* re(z), im(conjugate(z)) = -im(z)), and the re or im of a product of     *)
(* several complex symbols stays an unevaluated atom.                      *)
(***************************************************************************)
ZPart(m) == [s \in {x \in DOMAIN m : IsComplexSym(x)} |-> m[s]]
RPart(m) == [s \in {x \in DOMAIN m : ~IsComplexSym(x)} |-> m[s]]

IsSingleConj(z) == \E n \in ComplexNames : z = MPow(<<"c", n>>, 1)

ReAtom(z) ==
  IF z = MOne THEN POne
  ELSE IF IsSingleConj(z) THEN PAtom(<<"re", MConj(z)>>)
  ELSE PAtom(<<"re", z>>)

ImAtom(z) ==
  IF z = MOne THEN PZero
  ELSE IF IsSingleConj(z) THEN PNeg(PAtom(<<"im", MConj(z)>>))
  ELSE PAtom(<<"im", z>>)

RECURSIVE re(_)
re(p) ==
  IF p = {} THEN {}
  ELSE LET t == CHOOSE x \in p : TRUE
           ReTerm ==
             TermMul([m |-> RPart(t.m), c |-> CNorm(1, 0, t.c.k)],
                     PSub(PMul(PInt(t.c.re), ReAtom(ZPart(t.m))),
                          PMul(PInt(t.c.im), ImAtom(ZPart(t.m)))))
       IN  PAdd(ReTerm, re(p \ {t}))

RECURSIVE im(_)
im(p) ==
  IF p = {} THEN {}
  ELSE LET t == CHOOSE x \in p : TRUE
           ImTerm ==
             TermMul([m |-> RPart(t.m), c |-> CNorm(1, 0, t.c.k)],
                     PAdd(PMul(PInt(t.c.re), ImAtom(ZPart(t.m))),
                          PMul(PInt(t.c.im), ReAtom(ZPart(t.m)))))
       IN  PAdd(ImTerm, im(p \ {t}))

\* the coefficient-wise real and imaginary part of an expression in real atoms
RealPart(p) == {t \in {[m |-> u.m, c |-> CNorm(u.c.re, 0, u.c.k)] : u \in p} : t.c # CZero}
ImagPart(p) == {t \in {[m |-> u.m, c |-> CNorm(u.c.im, 0, u.c.k)] : u \in p} : t.c # CZero}

\* z = re(z) + I*im(z) for a complex symbol, conjugate(z) = re(z) - I*im(z)
Components(s) ==
  LET z == MPow(<<"s", s[2]>>, 1)
  IN  IF s[1] = "s"
      THEN PAdd(PAtom(<<"re", z>>), PMul(PI, PAtom(<<"im", z>>)))
      ELSE PSub(PAtom(<<"re", z>>), PMul(PI, PAtom(<<"im", z>>)))

RECURSIVE SplitProduct(_)
SplitProduct(z) ==
  IF z = MOne THEN POne
  ELSE LET s == CHOOSE x \in DOMAIN z : TRUE
       IN  PMul(PPow(Components(s), z[s]), SplitProduct(MDrop(z, {s})))

(***************************************************************************)
(* Vectors, lists and matrices are functions over Python's index ranges.   *)
(***************************************************************************)
Ne == 3
Nl == 2

range(n) == 0 .. (n - 1)

\* sum of F[k] for k in range(n)
RECURSIVE SumTo(_, _)
SumTo(F, n) == IF n = 0 THEN PZero ELSE PAdd(SumTo(F, n - 1), F[n - 1])

zeros(n, m) == [i \in range(n) |-> [j \in range(m) |-> PZero]]
MatAdd(A, B) == [i \in DOMAIN A |-> [j \in DOMAIN A[i] |-> PAdd(A[i][j], B[i][j])]]
MatSub(A, B) == [i \in DOMAIN A |-> [j \in DOMAIN A[i] |-> PSub(A[i][j], B[i][j])]]
MatScale(p, A) == [i \in DOMAIN A |-> [j \in DOMAIN A[i] |-> PMul(p, A[i][j])]]
MatMul(A, B) ==
  [i \in DOMAIN A |-> [j \in DOMAIN B[0] |->
     SumTo([k \in DOMAIN B |-> PMul(A[i][k], B[k][j])], Cardinality(DOMAIN B))]]
MatVec(A, v) ==
  [i \in DOMAIN A |-> SumTo([k \in DOMAIN v |-> PMul(A[i][k], v[k])], Cardinality(DOMAIN v))]
MatMap(A, n, q) == [i \in DOMAIN A |-> [j \in DOMAIN A[i] |-> PSubs(A[i][j], n, q)]]
adjoint(A) == [i \in DOMAIN A[0] |-> [j \in DOMAIN A |-> conjugate(A[j][i])]]
VecAdd(u, v) == [i \in DOMAIN u |-> PAdd(u[i], v[i])]
VecSub(u, v) == [i \in DOMAIN u |-> PSub(u[i], v[i])]
VecScale(p, v) == [i \in DOMAIN v |-> PMul(p, v[i])]
VecConj(v) == [i \in DOMAIN v |-> conjugate(v[i])]

\* sum(list, zero) of a list of vectors or of matrices
RECURSIVE VecSum(_, _, _)
VecSum(L, n, zero) == IF n = 0 THEN zero ELSE VecAdd(VecSum(L, n - 1, zero), L[n - 1])
RECURSIVE MatSum(_, _, _)
MatSum(L, n, zero) == IF n = 0 THEN zero ELSE MatAdd(MatSum(L, n - 1, zero), L[n - 1])

KroneckerDelta(i, j) == IF i = j THEN POne ELSE PZero
delta_greater(i, j) == IF i > j THEN POne ELSE PZero
delta_lesser(i, j) == IF i < j THEN POne ELSE PZero

\* ket(i,Ne)*bra(j,Ne): the matrix unit with a 1 at row i, column j (counted from 1)
ketbra(i, j) == [a \in range(Ne) |-> [b \in range(Ne) |-> IF a = i - 1 /\ b = j - 1 THEN POne ELSE PZero]]

cartesian_to_helicity(v) ==
  LET ISqrt2 == PSym("1/sqrt(2)")
  IN
  [q \in range(3) |->
     IF q = 0 THEN PMul(PSub(v[0], PMul(PI, v[1])), ISqrt2)
     ELSE IF q = 1 THEN v[2]
     ELSE PNeg(PMul(PAdd(v[0], PMul(PI, v[1])), ISqrt2))]

\* v1.v2 in the helicity basis, for vectors of scalars
helicity_dot_product(v1, v2) ==
  PAdd(PSub(PMul(v1[1], v2[1]), PMul(v1[2], v2[0])), PNeg(PMul(v1[0], v2[2])))

vector_element(r, i, j) == [p \in DOMAIN r |-> r[p][i][j]]

\* v1.v2 for a vector v2 of matrices: the matrix of the entrywise products
helicity_dot_matrix(v1, r) ==
  [i \in range(Ne) |-> [j \in range(Ne) |-> helicity_dot_product(v1, vector_element(r, i, j))]]

lindblad_operator(A, rho) ==
  MatSub(MatMul(MatMul(A, rho), adjoint(A)),
         MatScale(PHalf, MatAdd(MatMul(rho, MatMul(adjoint(A), A)),
                                MatMul(MatMul(adjoint(A), A), rho))))

(***************************************************************************)
(* The values the examples bind, each as a function of the globals g the   *)
(* example reads.  Results of library calls whose output the script prints *)
(* are the printed values.                                                 *)
(***************************************************************************)
\* pi/2
HalfPi == PMul(PHalf, PSym("pi"))

\* cos and sin at the two angles the script uses
cos(x) == IF x = PZero THEN POne ELSE IF x = HalfPi THEN PZero ELSE PAtom(<<"cos", x>>)
sin(x) == IF x = PZero THEN PZero ELSE IF x = HalfPi THEN POne ELSE PAtom(<<"sin", x>>)

define_laser_variables(n) ==
  [E0 |-> [l \in range(n) |-> PSym(<<"E_0^1", "E_0^2">>[l + 1])],
   omega_laser |-> [l \in range(n) |-> PSym(<<"omega^1", "omega^2">>[l + 1])]]

\* symbols(n, real=...): a symbol declared real that shares its name with a complex one is another symbol
symbols(n, real) == IF real /\ n \in ComplexNames THEN PAtom(<<"r", n>>) ELSE PSym(n)

t == symbols("t", TRUE)
hbar == symbols("hbar", TRUE)
e == symbols("e", TRUE)

k1(g) == [i \in range(3) |->
            IF i = 0 THEN PMul(cos(g.phi), sin(g.theta))
            ELSE IF i = 1 THEN PMul(sin(g.phi), sin(g.theta))
            ELSE cos(g.theta)]

k2(g) == [i \in range(3) |->
            IF i = 0 THEN PMul(cos(g.phi), sin(g.theta))
            ELSE IF i = 1 THEN PMul(sin(g.phi), sin(g.theta))
            ELSE cos(g.theta)]

\* the polarization vector for the angles of the script: linear along z
polarization_vector(phi, theta, alpha, beta, p) ==
  IF <<phi, theta, alpha, beta, p>> = <<PZero, HalfPi, HalfPi, PZero, 1>>
  THEN [i \in range(3) |-> IF i = 2 THEN POne ELSE PZero]
  ELSE [i \in range(3) |-> PAtom(<<"polarization", i>>)]

zero_vect == [i \in range(3) |-> PZero]

E_cartesian(g) ==
  [l \in range(Nl) |->
     VecScale(PHalf,
       VecAdd(VecScale(PMul(g.E0[l], ExpI(g.omega_laser[l], -1)), g.ep[l]),
              VecScale(PMul(conjugate(g.E0[l]), ExpI(g.omega_laser[l], 1)), g.em[l])))]

E(g) == [l \in range(Nl) |-> cartesian_to_helicity(g.E_cartesian[l])]

\* the helicity component q = -1, 0, +1 of index p = 0, 1, 2 as it is printed
HelicityName(q, i, j) ==
  <<<<"r_{-1;21}", "r_{-1;31}", "r_{-1;32}">>,
    <<"r_{0;21}", "r_{0;31}", "r_{0;32}">>,
    <<"r_{+1;21}", "r_{+1;31}", "r_{+1;32}">>>>[q + 2][IF i = 1 THEN 1 ELSE j + 2]

\* r[p][i,j] = r_{p-1;(i+1)(j+1)} below the diagonal, (-1)^(p-1) r_{1-p;(j+1)(i+1)} above it
define_r_components(n) ==
  [p \in range(3) |-> [i \in range(n) |-> [j \in range(n) |->
     IF i > j THEN PSym(HelicityName(p - 1, i, j))
     ELSE IF i < j THEN PMul(PInt(IF p = 1 THEN 1 ELSE -1), PSym(HelicityName(1 - p, j, i)))
     ELSE PZero]]]

SymName(p) == (CHOOSE s \in DOMAIN (CHOOSE x \in p : TRUE).m : TRUE)[2]

r_131(g) ==
  [p \in range(3) |->
     MatMap(MatMap(MatMap(g.r[p], SymName(g.r[0][1][0]), PZero),
                   SymName(g.r[1][1][0]), PZero),
            SymName(g.r[2][1][0]), PZero)]

PairName(base, i, j) ==
  <<base \o "_21", base \o "_31", base \o "_32">>[IF i = 1 THEN 1 ELSE j + 2]

\* the matrix with the same symbol on both sides of the diagonal
Antisymmetric_even(base, n) ==
  [i \in range(n) |-> [j \in range(n) |->
     IF i > j THEN PSym(PairName(base, i, j))
     ELSE IF i < j THEN PSym(PairName(base, j, i))
     ELSE PZero]]

Antisymmetric(base, n) ==
  [i \in range(n) |-> [j \in range(n) |->
     IF i > j THEN PSym(PairName(base, i, j))
     ELSE IF i < j THEN PNeg(PSym(PairName(base, j, i)))
     ELSE PZero]]

define_frequencies(n) ==
  [omega_level |-> [i \in range(n) |-> PSym(<<"omega_1", "omega_2", "omega_3">>[i + 1])],
   omega |-> Antisymmetric("omega", n),
   gamma |-> Antisymmetric("gamma", n)]

gamma_145(g) == MatMap(g.gamma, SymName(g.gamma[1][0]), PZero)

H0(g) == [i \in range(Ne) |-> [j \in range(Ne) |->
            PMul3(hbar, g.omega_level[i], KroneckerDelta(i, j))]]

H1(g) ==
  MatSum([l \in range(Nl) |-> MatScale(e, helicity_dot_matrix(g.E[l], g.r))], Nl, g.zero_matrix)

H(g) == MatAdd(g.H0, g.H1)

\* the positive-frequency part without the factor 1/2
E_cartesian_p_full(g) ==
  [l \in range(Nl) |->
     VecScale(PMul(g.E0[l], ExpI(g.omega_laser[l], -1)), g.ep[l])]

E_cartesian_p(g) ==
  [l \in range(Nl) |->
     VecScale(PMul3(g.E0[l], PHalf, ExpI(g.omega_laser[l], -1)), g.ep[l])]

E_cartesian_m(g) ==
  [l \in range(Nl) |->
     VecScale(PMul3(conjugate(g.E0[l]), PHalf, ExpI(g.omega_laser[l], 1)), g.em[l])]

E_p(g) == [l \in range(Nl) |-> cartesian_to_helicity(g.E_cartesian_p[l])]
E_m(g) == [l \in range(Nl) |-> cartesian_to_helicity(g.E_cartesian_m[l])]

r_I(g) ==
  [p \in range(3) |-> [i \in range(Ne) |-> [j \in range(Ne) |->
     PMul(ExpI(g.omega[i][j], 1), g.r[p][i][j])]]]

\* the positive part with the phase of r_I_m: exp(I*omega[j,i]*t)
r_I_p_conj(g) ==
  [p \in range(3) |-> [i \in range(Ne) |-> [j \in range(Ne) |->
     PMul3(delta_greater(j, i), ExpI(g.omega[j][i], 1), g.r[p][i][j])]]]

r_I_p(g) ==
  [p \in range(3) |-> [i \in range(Ne) |-> [j \in range(Ne) |->
     PMul3(delta_greater(j, i), ExpI(g.omega[j][i], -1), g.r[p][i][j])]]]

r_I_m(g) ==
  [p \in range(3) |-> [i \in range(Ne) |-> [j \in range(Ne) |->
     PMul3(delta_lesser(j, i), ExpI(g.omega[i][j], 1), g.r[p][i][j])]]]

H1I(g) ==
  MatSum([l \in range(Nl) |-> MatScale(e, helicity_dot_matrix(g.E[l], g.r_I))], Nl, g.zero_matrix)

\* the terms the approximation drops: E_p with r_I_p and E_m with r_I_m
H1IRWA_corotating(g) ==
  MatSum([l \in range(Nl) |->
            MatScale(e, MatAdd(helicity_dot_matrix(g.E_p[l], g.r_I_p),
                               helicity_dot_matrix(g.E_m[l], g.r_I_m)))],
         Nl, g.zero_matrix)

H1IRWA_362(g) ==
  MatSum([l \in range(Nl) |->
            MatScale(e, MatAdd(helicity_dot_matrix(g.E_p[l], g.r_I_m),
                               helicity_dot_matrix(g.E_m[l], g.r_I_p)))],
         Nl, g.zero_matrix)

Lij_396 == <<<<1, 3, {1}>>, <<2, 3, {2}>>>>

\* the table filled only at the positions the triples name, not at the transposed ones
formatLij_directed(L, n) ==
  [i \in range(n) |-> [j \in range(n) |->
     LET hits == {k \in DOMAIN L : L[k][1] = i + 1 /\ L[k][2] = j + 1}
     IN  IF hits = {} THEN {}
         ELSE L[CHOOSE k \in hits : \A y \in hits : k <= y][3]]]

\* the set of fields of the first triple that names the pair (i+1, j+1) in either order
formatLij(L, n) ==
  [i \in range(n) |-> [j \in range(n) |->
     LET hits == {k \in DOMAIN L : {L[k][1], L[k][2]} = {i + 1, j + 1} /\ i # j}
     IN  IF hits = {} THEN {}
         ELSE L[CHOOSE k \in hits : \A y \in hits : k <= y][3]]]

\* the sum over every field l, whatever Lij holds
Selected_all(g, Ef, rr) ==
  [i \in range(Ne) |-> [j \in range(Ne) |->
     SumTo([l \in range(Nl) |->
              PMul(e, helicity_dot_product(Ef[l], vector_element(rr, i, j)))], Nl)]]

\* sum over l, j, i with l+1 in Lij[i][j] of e*(Ef[l] . rr[i,j]) * ket(i+1)*bra(j+1)
Selected(g, Ef, rr) ==
  [i \in range(Ne) |-> [j \in range(Ne) |->
     SumTo([l \in range(Nl) |->
              IF l + 1 \in g.Lij[i][j]
              THEN PMul(e, helicity_dot_product(Ef[l], vector_element(rr, i, j)))
              ELSE PZero], Nl)]]

H1IRWA_407(g) == MatAdd(g.zero_matrix, Selected(g, g.E_p, g.r_I_m))
H1IRWA_409(g) == MatAdd(g.H1IRWA, MatAdd(g.zero_matrix, Selected(g, g.E_m, g.r_I_p)))

r_p(g) ==
  [p \in range(3) |-> [i \in range(Ne) |-> [j \in range(Ne) |->
     PMul(delta_greater(j, i), g.r[p][i][j])]]]

r_m(g) ==
  [p \in range(3) |-> [i \in range(Ne) |-> [j \in range(Ne) |->
     PMul(delta_lesser(j, i), g.r[p][i][j])]]]

H1RWA_463(g) == MatAdd(g.zero_matrix, Selected(g, g.E_p, g.r_m))
H1RWA_465(g) == MatAdd(g.H1RWA, MatAdd(g.zero_matrix, Selected(g, g.E_m, g.r_p)))

HRWA(g) == MatAdd(g.H0, g.H1RWA)

define_psi_coefficients(n) ==
  [c |-> [i \in range(n) |-> PSym(<<"c1(t)", "c2(t)", "c3(t)">>[i + 1])],
   ctilde |-> [i \in range(n) |->
      PSym(<<"\\tilde{c}_{1}(t)", "\\tilde{c}_{2}(t)", "\\tilde{c}_{3}(t)">>[i + 1])],
   phase |-> [i \in range(n) |-> PSym(<<"theta1", "theta2", "theta3">>[i + 1])]]

psi(g) == [i \in range(Ne) |-> PMul(ExpI(g.phase[i], 1), g.ctilde[i])]

lhs(g) == [i \in range(Ne) |-> PMul3(PI, hbar, DiffT(g.psi[i]))]

rhs(g) == MatVec(g.HRWA, g.psi)

lhs_new(g) ==
  [i \in range(Ne) |->
     PAdd(PMul(g.lhs[i], ExpI(g.phase[i], -1)), PMul3(hbar, g.phase[i], g.ctilde[i]))]

rhs_new_577(g) ==
  [i \in range(Ne) |->
     PAdd(PMul(g.rhs[i], ExpI(g.phase[i], -1)), PMul3(hbar, g.phase[i], g.ctilde[i]))]

\* Cramer's rule with the two numerators exchanged in sign
solve_negated(f, x) ==
  LET n0 == SymName(x[0])
      n1 == SymName(x[1])
      IntOf(p) == IF p = {} THEN 0 ELSE (CHOOSE y \in p : TRUE).c.re
      a(i, n) == IntOf(Diff(f[i], <<"s", n>>))
      k(i) == PSubs(PSubs(f[i], n0, PZero), n1, PZero)
      D == a(0, n0) * a(1, n1) - a(0, n1) * a(1, n0)
  IN  (n0 :> PMul(PInt(D), PSub(PMul(PInt(a(1, n1)), k(0)), PMul(PInt(a(0, n1)), k(1))))) @@
      (n1 :> PMul(PInt(D), PSub(PMul(PInt(a(0, n0)), k(1)), PMul(PInt(a(1, n0)), k(0)))))

(***************************************************************************)
(* solve([f0, f1], [x0, x1], dict=True)[0] for two equations f = 0 that    *)
(* are linear in x0, x1 with integer coefficients and determinant 1 or -1: *)
(* Cramer's rule.                                                          *)
(***************************************************************************)
solve(f, x) ==
  LET n0 == SymName(x[0])
      n1 == SymName(x[1])
      IntOf(p) == IF p = {} THEN 0 ELSE (CHOOSE y \in p : TRUE).c.re
      a(i, n) == IntOf(Diff(f[i], <<"s", n>>))
      k(i) == PSubs(PSubs(f[i], n0, PZero), n1, PZero)
      D == a(0, n0) * a(1, n1) - a(0, n1) * a(1, n0)
  IN  (n0 :> PMul(PInt(D), PSub(PMul(PInt(a(0, n1)), k(1)), PMul(PInt(a(1, n1)), k(0))))) @@
      (n1 :> PMul(PInt(D), PSub(PMul(PInt(a(1, n0)), k(0)), PMul(PInt(a(0, n0)), k(1)))))

\* the phases solved with the two laser frequencies exchanged
phase_transformation_swapped(g) ==
  solve([i \in range(2) |->
           IF i = 0 THEN PAdd(PSub(g.omega_laser[1], g.phase[0]), g.phase[2])
           ELSE PAdd(PSub(g.omega_laser[0], g.phase[1]), g.phase[2])],
        [i \in range(2) |-> IF i = 0 THEN g.phase[1] ELSE g.phase[2]])

phase_transformation(g) ==
  solve([i \in range(2) |->
           IF i = 0 THEN PAdd(PSub(g.omega_laser[0], g.phase[0]), g.phase[2])
           ELSE PAdd(PSub(g.omega_laser[1], g.phase[1]), g.phase[2])],
        [i \in range(2) |-> IF i = 0 THEN g.phase[1] ELSE g.phase[2]])

\* expr.subs(d) for a dict d from symbol names to expressions
RECURSIVE SubsDict(_, _)
SubsDict(p, d) ==
  IF DOMAIN d = {} THEN p
  ELSE LET n == CHOOSE x \in DOMAIN d : TRUE
       IN  SubsDict(PSubs(p, n, d[n]), [x \in DOMAIN d \ {n} |-> d[x]])

rhs_new_645(g) == [i \in range(Ne) |-> SubsDict(g.rhs_new[i], g.phase_transformation)]

Htilde_693(g) ==
  [i \in range(Ne) |-> [j \in range(Ne) |->
     Diff(g.rhs_new[i], <<"s", SymName(g.ctilde[j])>>)]]

\* the choice theta1 = +omega_1
Htilde_728_plus(g) == MatMap(g.Htilde, SymName(g.phase[0]), g.omega_level[0])

Htilde_728(g) == MatMap(g.Htilde, SymName(g.phase[0]), PNeg(g.omega_level[0]))

Htilde_729(g) ==
  MatMap(g.Htilde, SymName(g.omega_laser[0]),
         PSub(PAdd(g.delta1, g.omega_level[2]), g.omega_level[0]))

Htilde_730(g) ==
  MatMap(g.Htilde, SymName(g.omega_laser[1]),
         PSub(PAdd(g.delta2, g.omega_level[2]), g.omega_level[1]))

\* expressions are kept in expanded form: expand() collects the terms again
Htilde_732(g) == MatAdd(g.Htilde, zeros(Ne, Ne))

Htilde_755(g) ==
  MatMap(g.Htilde, SymName(g.E0[0]),
         PMul3(g.Omega1, hbar, PInv(PMul(g.r[1][2][0], e))))

Htilde_756(g) ==
  MatMap(g.Htilde, SymName(g.E0[1]),
         PMul3(g.Omega2, hbar, PInv(PMul(g.r[1][2][1], e))))

RhoName(i, j) ==
  <<<<"rho11", "rho12", "rho13">>, <<"rho21", "rho22", "rho23">>,
    <<"rho31", "rho32", "rho33">>>>[i + 1][j + 1]

\* the matrix of nine independent symbols whatever the options
define_density_matrix_general(n, explicitly_hermitian, normalized) ==
  [i \in range(n) |-> [j \in range(n) |-> PSym(RhoName(i, j))]]

define_density_matrix(n, explicitly_hermitian, normalized) ==
  [i \in range(n) |-> [j \in range(n) |->
     IF normalized /\ i = 0 /\ j = 0
     THEN PSub(POne, SumTo([k \in range(n - 1) |-> PSym(RhoName(k + 1, k + 1))], n - 1))
     ELSE IF explicitly_hermitian /\ i < j THEN conjugate(PSym(RhoName(j, i)))
     ELSE PSym(RhoName(i, j))]]

hamiltonian_terms(g) ==
  MatScale(PMul(PI, PInv(hbar)), MatSub(MatMul(g.rho, g.Htilde), MatMul(g.Htilde, g.rho)))

lindblad_terms_796(g) == MatScale(g.gamma[2][0], lindblad_operator(ketbra(1, 3), g.rho))
lindblad_terms_797(g) ==
  MatAdd(g.lindblad_terms, MatScale(g.gamma[2][1], lindblad_operator(ketbra(2, 3), g.rho)))

lindblad_terms_881(g) == MatScale(g.gamma[1][0], lindblad_operator(ketbra(1, 2), g.rho))
lindblad_terms_882(g) ==
  MatAdd(g.lindblad_terms, MatScale(g.gamma[2][1], lindblad_operator(ketbra(2, 3), g.rho)))

eqs(g) == MatAdd(g.hamiltonian_terms, g.lindblad_terms)

\* the vector whose populations start from rho[0,0]
define_rho_vector_rows(rho, n) ==
  LET LowerPairs(x) == <<<<1, 0>>, <<2, 0>>, <<2, 1>>>>
  IN
  [mu \in range(n * n - 1) |->
     IF mu < n - 1 THEN rho[mu][mu]
     ELSE IF mu < n - 1 + 3
          THEN re(rho[LowerPairs(n)[mu - n + 2][1]][LowerPairs(n)[mu - n + 2][2]])
          ELSE im(rho[LowerPairs(n)[mu - n - 1][1]][LowerPairs(n)[mu - n - 1][2]])]

\* the pairs (i, j) below the diagonal in the order j = 0.., i = j+1..
define_rho_vector(rho, n) ==
  LET LowerPairs(x) == <<<<1, 0>>, <<2, 0>>, <<2, 1>>>>
  IN
  [mu \in range(n * n - 1) |->
     IF mu < n - 1 THEN rho[mu + 1][mu + 1]
     ELSE IF mu < n - 1 + 3
          THEN re(rho[LowerPairs(n)[mu - n + 2][1]][LowerPairs(n)[mu - n + 2][2]])
          ELSE im(rho[LowerPairs(n)[mu - n - 1][1]][LowerPairs(n)[mu - n - 1][2]])]

Re(n) == PAtom(<<"re", MPow(<<"s", n>>, 1)>>)
Im(n) == PAtom(<<"im", MPow(<<"s", n>>, 1)>>)

Half(p) == PMul(PHalf, p)

(***************************************************************************)
(* A, b = calculate_A_b(eqs, rho, Ne): the matrix and the vector that the  *)
(* script prints for this call.                                            *)
(***************************************************************************)
A_987(g) ==
  LET O == PZero
      d1 == g.delta1
      d2 == g.delta2
      r1 == Re("Omega1")
      i1 == Im("Omega1")
      r2 == Re("Omega2")
      i2 == Im("Omega2")
      gamma_32 == PSym("gamma_32")
      hg == Half(gamma_32)
      N(p) == PNeg(p)
      rows ==
        << <<O, gamma_32, O, O, N(i2), O, O, r2>>,
           <<O, N(gamma_32), O, i1, i2, O, N(r1), N(r2)>>,
           <<O, O, O, N(Half(i2)), N(Half(i1)), PSub(d2, d1), Half(r2), Half(r1)>>,
           <<N(Half(i1)), N(i1), Half(i2), N(hg), O, Half(r2), N(d1), O>>,
           <<Half(i2), N(Half(i2)), Half(i1), O, N(hg), N(Half(r1)), O, N(d2)>>,
           <<O, O, PSub(d1, d2), N(Half(r2)), Half(r1), O, N(Half(i2)), Half(i1)>>,
           <<Half(r1), r1, N(Half(r2)), d1, O, Half(i2), N(hg), O>>,
           <<N(Half(r2)), Half(r2), N(Half(r1)), O, d2, N(Half(i1)), O, N(hg)>> >>
  IN  [mu \in range(Ne * Ne - 1) |-> [nu \in range(Ne * Ne - 1) |-> rows[mu + 1][nu + 1]]]

b_987(g) ==
  [mu \in range(Ne * Ne - 1) |->
     IF mu = 3 THEN PNeg(Half(Im("Omega1")))
     ELSE IF mu = 6 THEN Half(Re("Omega1"))
     ELSE PZero]

\* eqs_new with the independent term added instead of subtracted
eqs_new_plus(g) == VecAdd(MatVec(g.A, g.rho_vect), g.b)

eqs_new(g) == VecSub(MatVec(g.A, g.rho_vect), g.b)

\* ss_comp={rho[i,j]: re(rho[i,j])+I*im(rho[i,j]) for j in range(Ne) for i in range(Ne)}: a dict
\* whose keys are the nine entries of rho; for the real entries (rho22, rho33, -rho22-rho33+1)
\* the value is the key itself
ss_comp(g) ==
  [z \in {g.rho[i][j] : i \in range(g.Ne), j \in range(g.Ne)} |-> PAdd(re(z), PMul(PI, im(z)))]

\* Matrix([re(eqs[1,1]),re(eqs[2,2]), re(eqs[1,0]),...,im(eqs[2,1])]): the argument of lines 1113-1115
Matrix_1113(g) ==
  [mu \in range(Ne * Ne - 1) |->
     <<re(g.eqs[1][1]), re(g.eqs[2][2]),
       re(g.eqs[1][0]), re(g.eqs[2][0]), re(g.eqs[2][1]),
       im(g.eqs[1][0]), im(g.eqs[2][0]), im(g.eqs[2][1])>>[mu + 1]]

test_1113(g) == VecSub(g.eqs_new, Matrix_1113(g))

(***************************************************************************)
(* expr.subs(ss): a symbol or conjugate that is a key is replaced by its   *)
(* value, and a re(z) or im(z) of a product z that holds a key is          *)
(* evaluated to the real or imaginary part of the product of components.   *)
(* A key that is a sum has itself as its value and replaces nothing.       *)
(***************************************************************************)
SubsAtom(s, ss) ==
  IF PAtom(s) \in DOMAIN ss THEN ss[PAtom(s)]
  ELSE IF /\ s[1] \in {"re", "im"} /\ Cardinality(DOMAIN s[2]) > 1
          /\ \E x \in DOMAIN s[2] : PAtom(x) \in DOMAIN ss
       THEN IF s[1] = "re" THEN RealPart(SplitProduct(s[2])) ELSE ImagPart(SplitProduct(s[2]))
       ELSE PAtom(s)

RECURSIVE SubsMono(_, _)
SubsMono(m, ss) ==
  IF m = MOne THEN POne
  ELSE LET s == CHOOSE x \in DOMAIN m : TRUE
       IN  PMul(PPowZ(SubsAtom(s, ss), m[s]), SubsMono(MDrop(m, {s}), ss))

RECURSIVE SubsComp(_, _)
SubsComp(p, ss) ==
  IF p = {} THEN {}
  ELSE LET u == CHOOSE x \in p : TRUE
       IN  PAdd(PMul(PConst(u.c), SubsMono(u.m, ss)), SubsComp(p \ {u}, ss))

test_1117(g) == [mu \in DOMAIN g.test |-> SubsComp(g.test[mu], g.ss_comp)]

(***************************************************************************)
(* The values the zero checks print: lines 221, 338 and 452.               *)
(***************************************************************************)
check_221(g) ==
  VecSub(VecSum(g.E, Nl, g.zero_vect),
         VecSum([l \in range(Nl) |-> VecAdd(g.E_p[l], g.E_m[l])], Nl, g.zero_vect))

check_338(g) == [p \in range(3) |-> MatSub(g.r_I[p], MatAdd(g.r_I_p[p], g.r_I_m[p]))]

check_452(g) == [p \in range(3) |-> MatSub(g.r[p], MatAdd(g.r_p[p], g.r_m[p]))]

(***************************************************************************)
(* The examples of __doc__ in the order the runner executes them: the line *)
(* of the >>> prompt, the last line of the example (of its expected output *)
(* when it has one), what kind of statement it is, the names it binds, the *)
(* names it reads, and for a pprint or print the names of the values its   *)
(* first argument shows: the values it prints, whole or in part, or takes  *)
(* the difference of.  The start value of a sum is not shown (zero_vect at *)
(* line 221 is the start of both sums and cancels from the difference),    *)
(* nor are the bounds of a range or the use_unicode argument.  "from fast  *)
(* import *" binds the names the script reads without binding them itself. *)
(***************************************************************************)
FastNames ==
  {"Derivative", "I", "KroneckerDelta", "Matrix", "bra", "calculate_A_b",
   "cartesian_to_helicity", "define_density_matrix", "define_frequencies",
   "define_laser_variables", "define_psi_coefficients", "define_r_components",
   "define_rho_vector", "delta_greater", "delta_lesser", "formatLij", "helicity_dot_product",
   "im", "init_printing", "ket", "lindblad_operator", "polarization_vector", "pprint", "re",
   "simplify", "solve", "symbols", "vector_element"}

Script ==
  <<
    [line |-> 7, last |-> 7, kind |-> "import", defs |-> FastNames, uses |-> {}, shows |-> {}],
    [line |-> 8, last |-> 8, kind |-> "call", defs |-> {}, uses |-> {"init_printing"}, shows |-> {}],
    [line |-> 9, last |-> 9, kind |-> "assign", defs |-> {"use_unicode"}, uses |-> {}, shows |-> {}],
    [line |-> 11, last |-> 11, kind |-> "import", defs |-> {"cos", "exp", "pi", "sin", "sqrt", "zeros"},
     uses |-> {}, shows |-> {}],
    [line |-> 12, last |-> 12, kind |-> "import", defs |-> {"array"}, uses |-> {}, shows |-> {}],
    [line |-> 16, last |-> 16, kind |-> "assign", defs |-> {"Ne"}, uses |-> {}, shows |-> {}],
    [line |-> 17, last |-> 17, kind |-> "assign", defs |-> {"Nl"}, uses |-> {}, shows |-> {}],
    [line |-> 21, last |-> 21, kind |-> "assign", defs |-> {"E0", "omega_laser"},
     uses |-> {"Nl", "define_laser_variables"}, shows |-> {}],
    [line |-> 22, last |-> 23, kind |-> "print", defs |-> {}, uses |-> {"E0", "pprint", "use_unicode"},
     shows |-> {"E0"}],
    [line |-> 27, last |-> 28, kind |-> "print", defs |-> {},
     uses |-> {"omega_laser", "pprint", "use_unicode"}, shows |-> {"omega_laser"}],
    [line |-> 34, last |-> 34, kind |-> "assign", defs |-> {"e", "hbar", "t"}, uses |-> {"symbols"},
     shows |-> {}],
    [line |-> 35, last |-> 36, kind |-> "print", defs |-> {},
     uses |-> {"e", "hbar", "pprint", "t", "use_unicode"}, shows |-> {"e", "hbar", "t"}],
    [line |-> 42, last |-> 42, kind |-> "assign", defs |-> {"alpha", "beta", "phi", "theta"}, uses |-> {"pi"},
     shows |-> {}],
    [line |-> 44, last |-> 44, kind |-> "assign", defs |-> {"k1"},
     uses |-> {"Matrix", "cos", "phi", "sin", "theta"}, shows |-> {}],
    [line |-> 45, last |-> 45, kind |-> "assign", defs |-> {"k2"},
     uses |-> {"Matrix", "cos", "phi", "sin", "theta"}, shows |-> {}],
    [line |-> 47, last |-> 52, kind |-> "print", defs |-> {}, uses |-> {"k1", "k2", "pprint", "use_unicode"},
     shows |-> {"k1", "k2"}],
    [line |-> 58, last |-> 58, kind |-> "assign", defs |-> {"ep1"},
     uses |-> {"alpha", "beta", "phi", "polarization_vector", "theta"}, shows |-> {}],
    [line |-> 59, last |-> 59, kind |-> "assign", defs |-> {"ep2"},
     uses |-> {"alpha", "beta", "phi", "polarization_vector", "theta"}, shows |-> {}],
    [line |-> 61, last |-> 61, kind |-> "assign", defs |-> {"em1"}, uses |-> {"ep1"}, shows |-> {}],
    [line |-> 62, last |-> 62, kind |-> "assign", defs |-> {"em2"}, uses |-> {"ep2"}, shows |-> {}],
    [line |-> 64, last |-> 64, kind |-> "assign", defs |-> {"ep"}, uses |-> {"ep1", "ep2"}, shows |-> {}],
    [line |-> 65, last |-> 65, kind |-> "assign", defs |-> {"em"}, uses |-> {"em1", "em2"}, shows |-> {}],
    [line |-> 67, last |-> 72, kind |-> "print", defs |-> {}, uses |-> {"em", "ep", "pprint", "use_unicode"},
     shows |-> {"em", "ep"}],
    [line |-> 78, last |-> 78, kind |-> "assign", defs |-> {"zero_vect"}, uses |-> {"Matrix"}, shows |-> {}],
    [line |-> 79, last |-> 80, kind |-> "assign", defs |-> {"E_cartesian", "l"},
     uses |-> {"E0", "I", "Nl", "em", "ep", "exp", "omega_laser", "range", "t"}, shows |-> {}],
    [line |-> 82, last |-> 99, kind |-> "print", defs |-> {},
     uses |-> {"E_cartesian", "pprint", "use_unicode"}, shows |-> {"E_cartesian"}],
    [line |-> 105, last |-> 105, kind |-> "assign", defs |-> {"E", "l"},
     uses |-> {"E_cartesian", "Nl", "cartesian_to_helicity", "range"}, shows |-> {}],
    [line |-> 106, last |-> 123, kind |-> "print", defs |-> {}, uses |-> {"E", "pprint", "use_unicode"},
     shows |-> {"E"}],
    [line |-> 129, last |-> 129, kind |-> "assign", defs |-> {"r"}, uses |-> {"Ne", "define_r_components"},
     shows |-> {}],
    [line |-> 131, last |-> 131, kind |-> "assign", defs |-> {"r", "ri"}, uses |-> {"r"}, shows |-> {}],
    [line |-> 132, last |-> 137, kind |-> "print", defs |-> {}, uses |-> {"pprint", "r", "use_unicode"},
     shows |-> {"r"}],
    [line |-> 143, last |-> 143, kind |-> "assign", defs |-> {"gamma", "omega", "omega_level"},
     uses |-> {"Ne", "define_frequencies"}, shows |-> {}],
    [line |-> 145, last |-> 145, kind |-> "assign", defs |-> {"gamma"}, uses |-> {"gamma"}, shows |-> {}],
    [line |-> 147, last |-> 148, kind |-> "print", defs |-> {},
     uses |-> {"omega_level", "pprint", "use_unicode"}, shows |-> {"omega_level"}],
    [line |-> 152, last |-> 157, kind |-> "print", defs |-> {}, uses |-> {"omega", "pprint", "use_unicode"},
     shows |-> {"omega"}],
    [line |-> 161, last |-> 166, kind |-> "print", defs |-> {}, uses |-> {"gamma", "pprint", "use_unicode"},
     shows |-> {"gamma"}],
    [line |-> 172, last |-> 172, kind |-> "assign", defs |-> {"H0", "i", "j"},
     uses |-> {"KroneckerDelta", "Matrix", "Ne", "hbar", "omega_level", "range"}, shows |-> {}],
    [line |-> 173, last |-> 178, kind |-> "print", defs |-> {}, uses |-> {"H0", "pprint", "use_unicode"},
     shows |-> {"H0"}],
    [line |-> 184, last |-> 184, kind |-> "assign", defs |-> {"zero_matrix"}, uses |-> {"Ne", "zeros"},
     shows |-> {}],
    [line |-> 185, last |-> 185, kind |-> "assign", defs |-> {"H1", "l"},
     uses |-> {"E", "Nl", "e", "helicity_dot_product", "r", "range", "sum", "zero_matrix"}, shows |-> {}],
    [line |-> 189, last |-> 189, kind |-> "assign", defs |-> {"H"}, uses |-> {"H0", "H1"}, shows |-> {}],
    [line |-> 194, last |-> 194, kind |-> "assign", defs |-> {"E_cartesian_p", "l"},
     uses |-> {"E0", "I", "Nl", "ep", "exp", "omega_laser", "range", "t"}, shows |-> {}],
    [line |-> 195, last |-> 195, kind |-> "assign", defs |-> {"E_cartesian_m", "l"},
     uses |-> {"E0", "I", "Nl", "em", "exp", "omega_laser", "range", "t"}, shows |-> {}],
    [line |-> 197, last |-> 197, kind |-> "assign", defs |-> {"E_p", "l"},
     uses |-> {"E_cartesian_p", "Nl", "cartesian_to_helicity", "range"}, shows |-> {}],
    [line |-> 198, last |-> 198, kind |-> "assign", defs |-> {"E_m", "l"},
     uses |-> {"E_cartesian_m", "Nl", "cartesian_to_helicity", "range"}, shows |-> {}],
    [line |-> 200, last |-> 217, kind |-> "print", defs |-> {},
     uses |-> {"E_m", "E_p", "pprint", "use_unicode"}, shows |-> {"E_m", "E_p"}],
    [line |-> 221, last |-> 226, kind |-> "print", defs |-> {"l"},
     uses |-> {"E", "E_m", "E_p", "Nl", "pprint", "range", "simplify", "sum", "use_unicode", "zero_vect"},
     shows |-> {"E", "E_m", "E_p"}],
    [line |-> 232, last |-> 232, kind |-> "assign", defs |-> {"i", "j", "p", "r_I"},
     uses |-> {"I", "Matrix", "Ne", "exp", "omega", "r", "range", "t"}, shows |-> {}],
    [line |-> 233, last |-> 241, kind |-> "print", defs |-> {}, uses |-> {"pprint", "r_I", "use_unicode"},
     shows |-> {"r_I"}],
    [line |-> 245, last |-> 253, kind |-> "print", defs |-> {}, uses |-> {"pprint", "r_I", "use_unicode"},
     shows |-> {"r_I"}],
    [line |-> 257, last |-> 265, kind |-> "print", defs |-> {}, uses |-> {"pprint", "r_I", "use_unicode"},
     shows |-> {"r_I"}],
    [line |-> 271, last |-> 271, kind |-> "assign", defs |-> {"i", "j", "p", "r_I_p"},
     uses |-> {"I", "Matrix", "Ne", "delta_greater", "exp", "omega", "r", "range", "t"}, shows |-> {}],
    [line |-> 272, last |-> 279, kind |-> "print", defs |-> {}, uses |-> {"pprint", "r_I_p", "use_unicode"},
     shows |-> {"r_I_p"}],
    [line |-> 283, last |-> 290, kind |-> "print", defs |-> {}, uses |-> {"pprint", "r_I_p", "use_unicode"},
     shows |-> {"r_I_p"}],
    [line |-> 294, last |-> 301, kind |-> "print", defs |-> {}, uses |-> {"pprint", "r_I_p", "use_unicode"},
     shows |-> {"r_I_p"}],
    [line |-> 305, last |-> 305, kind |-> "assign", defs |-> {"i", "j", "p", "r_I_m"},
     uses |-> {"I", "Matrix", "Ne", "delta_lesser", "exp", "omega", "r", "range", "t"}, shows |-> {}],
    [line |-> 306, last |-> 312, kind |-> "print", defs |-> {}, uses |-> {"pprint", "r_I_m", "use_unicode"},
     shows |-> {"r_I_m"}],
    [line |-> 316, last |-> 322, kind |-> "print", defs |-> {}, uses |-> {"pprint", "r_I_m", "use_unicode"},
     shows |-> {"r_I_m"}],
    [line |-> 326, last |-> 332, kind |-> "print", defs |-> {}, uses |-> {"pprint", "r_I_m", "use_unicode"},
     shows |-> {"r_I_m"}],
    [line |-> 338, last |-> 343, kind |-> "print", defs |-> {"p"},
     uses |-> {"pprint", "r_I", "r_I_m", "r_I_p", "range", "use_unicode"},
     shows |-> {"r_I", "r_I_m", "r_I_p"}],
    [line |-> 352, last |-> 352, kind |-> "assign", defs |-> {"H1I", "l"},
     uses |-> {"E", "Nl", "e", "helicity_dot_product", "r_I", "range", "sum", "zero_matrix"}, shows |-> {}],
    [line |-> 362, last |-> 362, kind |-> "assign", defs |-> {"H1IRWA", "l"},
     uses |-> {"E_m", "E_p", "Nl", "e", "helicity_dot_product", "r_I_m", "r_I_p", "range", "sum", "zero_matrix"},
     shows |-> {}],
    [line |-> 366, last |-> 375, kind |-> "print", defs |-> {}, uses |-> {"H1IRWA", "pprint", "use_unicode"},
     shows |-> {"H1IRWA"}],
    [line |-> 381, last |-> 390, kind |-> "print", defs |-> {}, uses |-> {"H1IRWA", "pprint", "use_unicode"},
     shows |-> {"H1IRWA"}],
    [line |-> 396, last |-> 396, kind |-> "assign", defs |-> {"Lij"}, uses |-> {}, shows |-> {}],
    [line |-> 397, last |-> 397, kind |-> "assign", defs |-> {"Lij"}, uses |-> {"Lij", "Ne", "formatLij"},
     shows |-> {}],
    [line |-> 398, last |-> 401, kind |-> "print", defs |-> {}, uses |-> {"Lij", "array"}, shows |-> {"Lij"}],
    [line |-> 407, last |-> 408, kind |-> "assign", defs |-> {"H1IRWA", "i", "j", "l"},
     uses |-> {"E_p", "Lij", "Ne", "Nl", "bra", "e", "helicity_dot_product", "ket", "r_I_m", "range", "sum", "vector_element", "zero_matrix"},
     shows |-> {}],
    [line |-> 409, last |-> 410, kind |-> "assign", defs |-> {"H1IRWA", "i", "j", "l"},
     uses |-> {"E_m", "H1IRWA", "Lij", "Ne", "Nl", "bra", "e", "helicity_dot_product", "ket", "r_I_p", "range", "sum", "vector_element", "zero_matrix"},
     shows |-> {}],
    [line |-> 412, last |-> 426, kind |-> "print", defs |-> {}, uses |-> {"H1IRWA", "pprint", "use_unicode"},
     shows |-> {"H1IRWA"}],
    [line |-> 432, last |-> 432, kind |-> "assign", defs |-> {"i", "j", "p", "r_p"},
     uses |-> {"Matrix", "Ne", "delta_greater", "r", "range"}, shows |-> {}],
    [line |-> 433, last |-> 438, kind |-> "print", defs |-> {}, uses |-> {"pprint", "r_p", "use_unicode"},
     shows |-> {"r_p"}],
    [line |-> 442, last |-> 442, kind |-> "assign", defs |-> {"i", "j", "p", "r_m"},
     uses |-> {"Matrix", "Ne", "delta_lesser", "r", "range"}, shows |-> {}],
    [line |-> 443, last |-> 448, kind |-> "print", defs |-> {}, uses |-> {"pprint", "r_m", "use_unicode"},
     shows |-> {"r_m"}],
    [line |-> 452, last |-> 457, kind |-> "print", defs |-> {"p"},
     uses |-> {"pprint", "r", "r_m", "r_p", "range", "use_unicode"}, shows |-> {"r", "r_m", "r_p"}],
    [line |-> 463, last |-> 464, kind |-> "assign", defs |-> {"H1RWA", "i", "j", "l"},
     uses |-> {"E_p", "Lij", "Ne", "Nl", "bra", "e", "helicity_dot_product", "ket", "r_m", "range", "sum", "vector_element", "zero_matrix"},
     shows |-> {}],
    [line |-> 465, last |-> 466, kind |-> "assign", defs |-> {"H1RWA", "i", "j", "l"},
     uses |-> {"E_m", "H1RWA", "Lij", "Ne", "Nl", "bra", "e", "helicity_dot_product", "ket", "r_p", "range", "sum", "vector_element", "zero_matrix"},
     shows |-> {}],
    [line |-> 468, last |-> 482, kind |-> "print", defs |-> {}, uses |-> {"H1RWA", "pprint", "use_unicode"},
     shows |-> {"H1RWA"}],
    [line |-> 488, last |-> 488, kind |-> "assign", defs |-> {"HRWA"}, uses |-> {"H0", "H1RWA"}, shows |-> {}],
    [line |-> 489, last |-> 518, kind |-> "print", defs |-> {}, uses |-> {"HRWA", "pprint", "use_unicode"},
     shows |-> {"HRWA"}],
    [line |-> 525, last |-> 525, kind |-> "assign", defs |-> {"c", "ctilde", "phase"},
     uses |-> {"Ne", "define_psi_coefficients"}, shows |-> {}],
    [line |-> 526, last |-> 531, kind |-> "print", defs |-> {},
     uses |-> {"c", "ctilde", "phase", "pprint", "use_unicode"}, shows |-> {"c", "ctilde", "phase"}],
    [line |-> 535, last |-> 535, kind |-> "assign", defs |-> {"i", "psi"},
     uses |-> {"I", "Matrix", "Ne", "ctilde", "exp", "phase", "range", "t"}, shows |-> {}],
    [line |-> 536, last |-> 544, kind |-> "print", defs |-> {}, uses |-> {"pprint", "psi", "use_unicode"},
     shows |-> {"psi"}],
    [line |-> 550, last |-> 550, kind |-> "assign", defs |-> {"i", "lhs"},
     uses |-> {"Derivative", "I", "Matrix", "Ne", "hbar", "psi", "range", "t"}, shows |-> {}],
    [line |-> 551, last |-> 559, kind |-> "print", defs |-> {}, uses |-> {"lhs", "pprint", "use_unicode"},
     shows |-> {"lhs"}],
    [line |-> 563, last |-> 563, kind |-> "assign", defs |-> {"rhs"}, uses |-> {"HRWA", "psi"}, shows |-> {}],
    [line |-> 567, last |-> 567, kind |-> "assign", defs |-> {"i", "lhs_new"},
     uses |-> {"I", "Matrix", "Ne", "ctilde", "exp", "hbar", "lhs", "phase", "range", "simplify", "t"},
     shows |-> {}],
    [line |-> 568, last |-> 573, kind |-> "print", defs |-> {}, uses |-> {"lhs_new", "pprint", "use_unicode"},
     shows |-> {"lhs_new"}],
    [line |-> 577, last |-> 577, kind |-> "assign", defs |-> {"i", "rhs_new"},
     uses |-> {"I", "Matrix", "Ne", "ctilde", "exp", "hbar", "phase", "range", "rhs", "simplify", "t"},
     shows |-> {}],
    [line |-> 578, last |-> 607, kind |-> "print", defs |-> {}, uses |-> {"pprint", "rhs_new", "use_unicode"},
     shows |-> {"rhs_new"}],
    [line |-> 613, last |-> 614, kind |-> "assign", defs |-> {"phase_transformation"},
     uses |-> {"omega_laser", "phase", "solve"}, shows |-> {}],
    [line |-> 615, last |-> 616, kind |-> "print", defs |-> {},
     uses |-> {"phase_transformation", "pprint", "use_unicode"}, shows |-> {"phase_transformation"}],
    [line |-> 622, last |-> 630, kind |-> "print", defs |-> {},
     uses |-> {"phase_transformation", "pprint", "psi", "use_unicode"},
     shows |-> {"phase_transformation", "psi"}],
    [line |-> 636, last |-> 641, kind |-> "print", defs |-> {}, uses |-> {"lhs_new", "pprint", "use_unicode"},
     shows |-> {"lhs_new"}],
    [line |-> 645, last |-> 645, kind |-> "assign", defs |-> {"rhs_new"},
     uses |-> {"phase_transformation", "rhs_new", "simplify"}, shows |-> {}],
    [line |-> 646, last |-> 687, kind |-> "print", defs |-> {}, uses |-> {"pprint", "rhs_new", "use_unicode"},
     shows |-> {"rhs_new"}],
    [line |-> 693, last |-> 693, kind |-> "assign", defs |-> {"Htilde", "i", "j"},
     uses |-> {"Derivative", "Matrix", "Ne", "ctilde", "range", "rhs_new"}, shows |-> {}],
    [line |-> 694, last |-> 721, kind |-> "print", defs |-> {}, uses |-> {"Htilde", "pprint", "use_unicode"},
     shows |-> {"Htilde"}],
    [line |-> 727, last |-> 727, kind |-> "assign", defs |-> {"delta1", "delta2"}, uses |-> {"symbols"},
     shows |-> {}],
    [line |-> 728, last |-> 728, kind |-> "assign", defs |-> {"Htilde"},
     uses |-> {"Htilde", "omega_level", "phase"}, shows |-> {}],
    [line |-> 729, last |-> 729, kind |-> "assign", defs |-> {"Htilde"},
     uses |-> {"Htilde", "delta1", "omega_laser", "omega_level"}, shows |-> {}],
    [line |-> 730, last |-> 730, kind |-> "assign", defs |-> {"Htilde"},
     uses |-> {"Htilde", "delta2", "omega_laser", "omega_level"}, shows |-> {}],
    [line |-> 732, last |-> 732, kind |-> "assign", defs |-> {"Htilde"}, uses |-> {"Htilde"}, shows |-> {}],
    [line |-> 734, last |-> 747, kind |-> "print", defs |-> {}, uses |-> {"Htilde", "pprint", "use_unicode"},
     shows |-> {"Htilde"}],
    [line |-> 753, last |-> 753, kind |-> "assign", defs |-> {"Omega1", "Omega2"}, uses |-> {"symbols"},
     shows |-> {}],
    [line |-> 754, last |-> 754, kind |-> "assign", defs |-> {"Omega1", "Omega2"}, uses |-> {"symbols"},
     shows |-> {}],
    [line |-> 755, last |-> 755, kind |-> "assign", defs |-> {"Htilde"},
     uses |-> {"E0", "Htilde", "Omega1", "e", "hbar", "r"}, shows |-> {}],
    [line |-> 756, last |-> 756, kind |-> "assign", defs |-> {"Htilde"},
     uses |-> {"E0", "Htilde", "Omega2", "e", "hbar", "r"}, shows |-> {}],
    [line |-> 758, last |-> 771, kind |-> "print", defs |-> {}, uses |-> {"Htilde", "pprint", "use_unicode"},
     shows |-> {"Htilde"}],
    [line |-> 777, last |-> 777, kind |-> "assign", defs |-> {"rho"},
     uses |-> {"Ne", "define_density_matrix"}, shows |-> {}],
    [line |-> 778, last |-> 783, kind |-> "print", defs |-> {}, uses |-> {"pprint", "rho", "use_unicode"},
     shows |-> {"rho"}],
    [line |-> 792, last |-> 792, kind |-> "assign", defs |-> {"hamiltonian_terms"},
     uses |-> {"Htilde", "I", "hbar", "rho"}, shows |-> {}],
    [line |-> 796, last |-> 796, kind |-> "assign", defs |-> {"lindblad_terms"},
     uses |-> {"Ne", "bra", "gamma", "ket", "lindblad_operator", "rho"}, shows |-> {}],
    [line |-> 797, last |-> 797, kind |-> "assign", defs |-> {"lindblad_terms"},
     uses |-> {"Ne", "bra", "gamma", "ket", "lindblad_operator", "lindblad_terms", "rho"}, shows |-> {}],
    [line |-> 799, last |-> 810, kind |-> "print", defs |-> {},
     uses |-> {"lindblad_terms", "pprint", "use_unicode"}, shows |-> {"lindblad_terms"}],
    [line |-> 817, last |-> 817, kind |-> "assign", defs |-> {"eqs"},
     uses |-> {"hamiltonian_terms", "lindblad_terms"}, shows |-> {}],
    [line |-> 818, last |-> 862, kind |-> "print", defs |-> {}, uses |-> {"eqs", "pprint", "use_unicode"},
     shows |-> {"eqs"}],
    [line |-> 868, last |-> 868, kind |-> "assign", defs |-> {"rho"},
     uses |-> {"Ne", "define_density_matrix"}, shows |-> {}],
    [line |-> 869, last |-> 876, kind |-> "print", defs |-> {}, uses |-> {"pprint", "rho", "use_unicode"},
     shows |-> {"rho"}],
    [line |-> 880, last |-> 880, kind |-> "assign", defs |-> {"hamiltonian_terms"},
     uses |-> {"Htilde", "I", "hbar", "rho"}, shows |-> {}],
    [line |-> 881, last |-> 881, kind |-> "assign", defs |-> {"lindblad_terms"},
     uses |-> {"Ne", "bra", "gamma", "ket", "lindblad_operator", "rho"}, shows |-> {}],
    [line |-> 882, last |-> 882, kind |-> "assign", defs |-> {"lindblad_terms"},
     uses |-> {"Ne", "bra", "gamma", "ket", "lindblad_operator", "lindblad_terms", "rho"}, shows |-> {}],
    [line |-> 884, last |-> 884, kind |-> "assign", defs |-> {"eqs"},
     uses |-> {"hamiltonian_terms", "lindblad_terms"}, shows |-> {}],
    [line |-> 885, last |-> 929, kind |-> "print", defs |-> {}, uses |-> {"eqs", "pprint", "use_unicode"},
     shows |-> {"eqs"}],
    [line |-> 935, last |-> 939, kind |-> "print", defs |-> {},
     uses |-> {"eqs", "pprint", "re", "use_unicode"}, shows |-> {"eqs"}],
    [line |-> 943, last |-> 947, kind |-> "print", defs |-> {},
     uses |-> {"eqs", "pprint", "re", "use_unicode"}, shows |-> {"eqs"}],
    [line |-> 951, last |-> 955, kind |-> "print", defs |-> {},
     uses |-> {"eqs", "im", "pprint", "use_unicode"}, shows |-> {"eqs"}],
    [line |-> 961, last |-> 961, kind |-> "assign", defs |-> {"rho_vect"},
     uses |-> {"Ne", "define_rho_vector", "rho"}, shows |-> {}],
    [line |-> 962, last |-> 977, kind |-> "print", defs |-> {},
     uses |-> {"pprint", "rho_vect", "use_unicode"}, shows |-> {"rho_vect"}],
    [line |-> 987, last |-> 987, kind |-> "assign", defs |-> {"A", "b"},
     uses |-> {"Ne", "calculate_A_b", "eqs", "rho"}, shows |-> {}],
    [line |-> 988, last |-> 1043, kind |-> "print", defs |-> {}, uses |-> {"A", "b", "pprint", "use_unicode"},
     shows |-> {"A", "b"}],
    [line |-> 1049, last |-> 1049, kind |-> "assign", defs |-> {"eqs_new"}, uses |-> {"A", "b", "rho_vect"},
     shows |-> {}],
    [line |-> 1050, last |-> 1105, kind |-> "print", defs |-> {},
     uses |-> {"eqs_new", "pprint", "use_unicode"}, shows |-> {"eqs_new"}],
    [line |-> 1111, last |-> 1111, kind |-> "assign", defs |-> {"ss_comp"},
     uses |-> {"I", "Ne", "im", "range", "re", "rho"}, shows |-> {}],
    [line |-> 1113, last |-> 1115, kind |-> "assign", defs |-> {"test"},
     uses |-> {"Matrix", "eqs", "eqs_new", "im", "re"}, shows |-> {}],
    [line |-> 1117, last |-> 1117, kind |-> "assign", defs |-> {"test"}, uses |-> {"ss_comp", "test"},
     shows |-> {}],
    [line |-> 1118, last |-> 1133, kind |-> "print", defs |-> {}, uses |-> {"pprint", "test", "use_unicode"},
     shows |-> {"test"}]
  >>


(***************************************************************************)
(* The reads of global names and the bindings of the example that starts   *)
(* at a line, in the order Python 2.7 evaluates them (a name's repeated    *)
(* reads once): a call its function, its arguments, its keywords; an       *)
(* operator its left side first; a dictionary each value before its key;   *)
(* an assignment its value before its targets; the statements of a line    *)
(* from left to right.  A list comprehension binds its variable in the     *)
(* globals: to the first element of what it iterates over ("first") before *)
(* the element expression is evaluated, to the first elements its          *)
(* condition accepts ("sel") before an element expression under a          *)
(* condition is, and it leaves the last element ("last").  A read marked   *)
(* "sel" happens when the condition accepts something; "cond" is the first *)
(* evaluation of the condition l+1 in Lij[i][j].  A statement binds        *)
(* its targets ("value") after all its reads; "=" stands for the value     *)
(* Binds gives, and on the lines of several statements (9 and 42) each     *)
(* statement's constant is written out.  An import reads and binds no name *)
(* this way.                                                               *)
(***************************************************************************)
Steps(line) ==
  CASE line = 8 -> <<<<"read", "init_printing", "always">>>>
    [] line = 9 -> <<<<"bind", "use_unicode", "value", "True">>, <<"bind", "use_unicode", "value",
         "False">>>>
    [] line = 16 -> <<<<"bind", "Ne", "value", "=">>>>
    [] line = 17 -> <<<<"bind", "Nl", "value", "=">>>>
    [] line = 21 -> <<<<"read", "define_laser_variables", "always">>, <<"read", "Nl", "always">>,
         <<"bind", "E0", "value", "=">>, <<"bind", "omega_laser", "value", "=">>>>
    [] line = 22 -> <<<<"read", "pprint", "always">>, <<"read", "E0", "always">>, <<"read",
         "use_unicode", "always">>>>
    [] line = 27 -> <<<<"read", "pprint", "always">>, <<"read", "omega_laser", "always">>, <<"read",
         "use_unicode", "always">>>>
    [] line = 34 -> <<<<"read", "symbols", "always">>, <<"bind", "t", "value", "=">>, <<"bind",
         "hbar", "value", "=">>, <<"bind", "e", "value", "=">>>>
    [] line = 35 -> <<<<"read", "pprint", "always">>, <<"read", "t", "always">>, <<"read", "hbar",
         "always">>, <<"read", "e", "always">>, <<"read", "use_unicode", "always">>>>
    [] line = 42 -> <<<<"bind", "phi", "value", "0">>, <<"read", "pi", "always">>, <<"bind",
         "theta", "value", "pi/2">>, <<"bind", "alpha", "value", "pi/2">>, <<"bind", "beta", "value",
         "0">>>>
    [] line = 44 -> <<<<"read", "Matrix", "always">>, <<"read", "cos", "always">>, <<"read", "phi",
         "always">>, <<"read", "sin", "always">>, <<"read", "theta", "always">>, <<"bind", "k1", "value",
         "=">>>>
    [] line = 45 -> <<<<"read", "Matrix", "always">>, <<"read", "cos", "always">>, <<"read", "phi",
         "always">>, <<"read", "sin", "always">>, <<"read", "theta", "always">>, <<"bind", "k2", "value",
         "=">>>>
    [] line = 47 -> <<<<"read", "pprint", "always">>, <<"read", "k1", "always">>, <<"read", "k2",
         "always">>, <<"read", "use_unicode", "always">>>>
    [] line = 58 -> <<<<"read", "polarization_vector", "always">>, <<"read", "phi", "always">>,
         <<"read", "theta", "always">>, <<"read", "alpha", "always">>, <<"read", "beta", "always">>,
         <<"bind", "ep1", "value", "=">>>>
    [] line = 59 -> <<<<"read", "polarization_vector", "always">>, <<"read", "phi", "always">>,
         <<"read", "theta", "always">>, <<"read", "alpha", "always">>, <<"read", "beta", "always">>,
         <<"bind", "ep2", "value", "=">>>>
    [] line = 61 -> <<<<"read", "ep1", "always">>, <<"bind", "em1", "value", "=">>>>
    [] line = 62 -> <<<<"read", "ep2", "always">>, <<"bind", "em2", "value", "=">>>>
    [] line = 64 -> <<<<"read", "ep1", "always">>, <<"read", "ep2", "always">>, <<"bind", "ep",
         "value", "=">>>>
    [] line = 65 -> <<<<"read", "em1", "always">>, <<"read", "em2", "always">>, <<"bind", "em",
         "value", "=">>>>
    [] line = 67 -> <<<<"read", "pprint", "always">>, <<"read", "ep", "always">>, <<"read", "em",
         "always">>, <<"read", "use_unicode", "always">>>>
    [] line = 78 -> <<<<"read", "Matrix", "always">>, <<"bind", "zero_vect", "value", "=">>>>
    [] line = 79 -> <<<<"read", "range", "always">>, <<"read", "Nl", "always">>, <<"bind", "l",
         "first", "Nl">>, <<"read", "E0", "always">>, <<"read", "ep", "always">>, <<"read", "exp",
         "always">>, <<"read", "I", "always">>, <<"read", "omega_laser", "always">>, <<"read", "t",
         "always">>, <<"read", "em", "always">>, <<"bind", "l", "last", "Nl">>, <<"bind", "E_cartesian",
         "value", "=">>>>
    [] line = 82 -> <<<<"read", "pprint", "always">>, <<"read", "E_cartesian", "always">>, <<"read",
         "use_unicode", "always">>>>
    [] line = 105 -> <<<<"read", "range", "always">>, <<"read", "Nl", "always">>, <<"bind", "l",
         "first", "Nl">>, <<"read", "cartesian_to_helicity", "always">>, <<"read", "E_cartesian",
         "always">>, <<"bind", "l", "last", "Nl">>, <<"bind", "E", "value", "=">>>>
    [] line = 106 -> <<<<"read", "pprint", "always">>, <<"read", "E", "always">>, <<"read",
         "use_unicode", "always">>>>
    [] line = 129 -> <<<<"read", "define_r_components", "always">>, <<"read", "Ne", "always">>,
         <<"bind", "r", "value", "=">>>>
    [] line = 131 -> <<<<"read", "r", "always">>, <<"bind", "ri", "first", "r">>, <<"bind", "ri",
         "last", "r">>, <<"bind", "r", "value", "=">>>>
    [] line = 132 -> <<<<"read", "pprint", "always">>, <<"read", "r", "always">>, <<"read",
         "use_unicode", "always">>>>
    [] line = 143 -> <<<<"read", "define_frequencies", "always">>, <<"read", "Ne", "always">>,
         <<"bind", "omega_level", "value", "=">>, <<"bind", "omega", "value", "=">>, <<"bind", "gamma",
         "value", "=">>>>
    [] line = 145 -> <<<<"read", "gamma", "always">>, <<"bind", "gamma", "value", "=">>>>
    [] line = 147 -> <<<<"read", "pprint", "always">>, <<"read", "omega_level", "always">>,
         <<"read", "use_unicode", "always">>>>
    [] line = 152 -> <<<<"read", "pprint", "always">>, <<"read", "omega", "always">>, <<"read",
         "use_unicode", "always">>>>
    [] line = 161 -> <<<<"read", "pprint", "always">>, <<"read", "gamma", "always">>, <<"read",
         "use_unicode", "always">>>>
    [] line = 172 -> <<<<"read", "Matrix", "always">>, <<"read", "range", "always">>, <<"read",
         "Ne", "always">>, <<"bind", "i", "first", "Ne">>, <<"bind", "j", "first", "Ne">>, <<"read",
         "hbar", "always">>, <<"read", "omega_level", "always">>, <<"read", "KroneckerDelta", "always">>,
         <<"bind", "j", "last", "Ne">>, <<"bind", "i", "last", "Ne">>, <<"bind", "H0", "value", "=">>>>
    [] line = 173 -> <<<<"read", "pprint", "always">>, <<"read", "H0", "always">>, <<"read",
         "use_unicode", "always">>>>
    [] line = 184 -> <<<<"read", "zeros", "always">>, <<"read", "Ne", "always">>, <<"bind",
         "zero_matrix", "value", "=">>>>
    [] line = 185 -> <<<<"read", "sum", "always">>, <<"read", "range", "always">>, <<"read", "Nl",
         "always">>, <<"bind", "l", "first", "Nl">>, <<"read", "e", "always">>, <<"read",
         "helicity_dot_product", "always">>, <<"read", "E", "always">>, <<"read", "r", "always">>,
         <<"bind", "l", "last", "Nl">>, <<"read", "zero_matrix", "always">>, <<"bind", "H1", "value",
         "=">>>>
    [] line = 189 -> <<<<"read", "H0", "always">>, <<"read", "H1", "always">>, <<"bind", "H",
         "value", "=">>>>
    [] line = 194 -> <<<<"read", "range", "always">>, <<"read", "Nl", "always">>, <<"bind", "l",
         "first", "Nl">>, <<"read", "E0", "always">>, <<"read", "ep", "always">>, <<"read", "exp",
         "always">>, <<"read", "I", "always">>, <<"read", "omega_laser", "always">>, <<"read", "t",
         "always">>, <<"bind", "l", "last", "Nl">>, <<"bind", "E_cartesian_p", "value", "=">>>>
    [] line = 195 -> <<<<"read", "range", "always">>, <<"read", "Nl", "always">>, <<"bind", "l",
         "first", "Nl">>, <<"read", "E0", "always">>, <<"read", "em", "always">>, <<"read", "exp",
         "always">>, <<"read", "I", "always">>, <<"read", "omega_laser", "always">>, <<"read", "t",
         "always">>, <<"bind", "l", "last", "Nl">>, <<"bind", "E_cartesian_m", "value", "=">>>>
    [] line = 197 -> <<<<"read", "range", "always">>, <<"read", "Nl", "always">>, <<"bind", "l",
         "first", "Nl">>, <<"read", "cartesian_to_helicity", "always">>, <<"read", "E_cartesian_p",
         "always">>, <<"bind", "l", "last", "Nl">>, <<"bind", "E_p", "value", "=">>>>
    [] line = 198 -> <<<<"read", "range", "always">>, <<"read", "Nl", "always">>, <<"bind", "l",
         "first", "Nl">>, <<"read", "cartesian_to_helicity", "always">>, <<"read", "E_cartesian_m",
         "always">>, <<"bind", "l", "last", "Nl">>, <<"bind", "E_m", "value", "=">>>>
    [] line = 200 -> <<<<"read", "pprint", "always">>, <<"read", "E_p", "always">>, <<"read", "E_m",
         "always">>, <<"read", "use_unicode", "always">>>>
    [] line = 221 -> <<<<"read", "pprint", "always">>, <<"read", "simplify", "always">>, <<"read",
         "sum", "always">>, <<"read", "range", "always">>, <<"read", "Nl", "always">>, <<"bind", "l",
         "first", "Nl">>, <<"read", "E", "always">>, <<"bind", "l", "last", "Nl">>, <<"read",
         "zero_vect", "always">>, <<"bind", "l", "first", "Nl">>, <<"read", "E_p", "always">>, <<"read",
         "E_m", "always">>, <<"bind", "l", "last", "Nl">>, <<"read", "use_unicode", "always">>>>
    [] line = 232 -> <<<<"read", "range", "always">>, <<"bind", "p", "first", "3">>, <<"read",
         "Matrix", "always">>, <<"read", "Ne", "always">>, <<"bind", "i", "first", "Ne">>, <<"bind", "j",
         "first", "Ne">>, <<"read", "exp", "always">>, <<"read", "I", "always">>, <<"read", "omega",
         "always">>, <<"read", "t", "always">>, <<"read", "r", "always">>, <<"bind", "j", "last", "Ne">>,
         <<"bind", "i", "last", "Ne">>, <<"bind", "p", "last", "3">>, <<"bind", "r_I", "value", "=">>>>
    [] line = 233 -> <<<<"read", "pprint", "always">>, <<"read", "r_I", "always">>, <<"read",
         "use_unicode", "always">>>>
    [] line = 245 -> <<<<"read", "pprint", "always">>, <<"read", "r_I", "always">>, <<"read",
         "use_unicode", "always">>>>
    [] line = 257 -> <<<<"read", "pprint", "always">>, <<"read", "r_I", "always">>, <<"read",
         "use_unicode", "always">>>>
    [] line = 271 -> <<<<"read", "range", "always">>, <<"bind", "p", "first", "3">>, <<"read",
         "Matrix", "always">>, <<"read", "Ne", "always">>, <<"bind", "i", "first", "Ne">>, <<"bind", "j",
         "first", "Ne">>, <<"read", "delta_greater", "always">>, <<"read", "exp", "always">>, <<"read",
         "I", "always">>, <<"read", "omega", "always">>, <<"read", "t", "always">>, <<"read", "r",
         "always">>, <<"bind", "j", "last", "Ne">>, <<"bind", "i", "last", "Ne">>, <<"bind", "p", "last",
         "3">>, <<"bind", "r_I_p", "value", "=">>>>
    [] line = 272 -> <<<<"read", "pprint", "always">>, <<"read", "r_I_p", "always">>, <<"read",
         "use_unicode", "always">>>>
    [] line = 283 -> <<<<"read", "pprint", "always">>, <<"read", "r_I_p", "always">>, <<"read",
         "use_unicode", "always">>>>
    [] line = 294 -> <<<<"read", "pprint", "always">>, <<"read", "r_I_p", "always">>, <<"read",
         "use_unicode", "always">>>>
    [] line = 305 -> <<<<"read", "range", "always">>, <<"bind", "p", "first", "3">>, <<"read",
         "Matrix", "always">>, <<"read", "Ne", "always">>, <<"bind", "i", "first", "Ne">>, <<"bind", "j",
         "first", "Ne">>, <<"read", "delta_lesser", "always">>, <<"read", "exp", "always">>, <<"read",
         "I", "always">>, <<"read", "omega", "always">>, <<"read", "t", "always">>, <<"read", "r",
         "always">>, <<"bind", "j", "last", "Ne">>, <<"bind", "i", "last", "Ne">>, <<"bind", "p", "last",
         "3">>, <<"bind", "r_I_m", "value", "=">>>>
    [] line = 306 -> <<<<"read", "pprint", "always">>, <<"read", "r_I_m", "always">>, <<"read",
         "use_unicode", "always">>>>
    [] line = 316 -> <<<<"read", "pprint", "always">>, <<"read", "r_I_m", "always">>, <<"read",
         "use_unicode", "always">>>>
    [] line = 326 -> <<<<"read", "pprint", "always">>, <<"read", "r_I_m", "always">>, <<"read",
         "use_unicode", "always">>>>
    [] line = 338 -> <<<<"read", "pprint", "always">>, <<"read", "range", "always">>, <<"bind", "p",
         "first", "3">>, <<"read", "r_I", "always">>, <<"read", "r_I_p", "always">>, <<"read", "r_I_m",
         "always">>, <<"bind", "p", "last", "3">>, <<"read", "use_unicode", "always">>>>
    [] line = 352 -> <<<<"read", "sum", "always">>, <<"read", "range", "always">>, <<"read", "Nl",
         "always">>, <<"bind", "l", "first", "Nl">>, <<"read", "e", "always">>, <<"read",
         "helicity_dot_product", "always">>, <<"read", "E", "always">>, <<"read", "r_I", "always">>,
         <<"bind", "l", "last", "Nl">>, <<"read", "zero_matrix", "always">>, <<"bind", "H1I", "value",
         "=">>>>
    [] line = 362 -> <<<<"read", "sum", "always">>, <<"read", "range", "always">>, <<"read", "Nl",
         "always">>, <<"bind", "l", "first", "Nl">>, <<"read", "e", "always">>, <<"read",
         "helicity_dot_product", "always">>, <<"read", "E_p", "always">>, <<"read", "r_I_m", "always">>,
         <<"read", "E_m", "always">>, <<"read", "r_I_p", "always">>, <<"bind", "l", "last", "Nl">>,
         <<"read", "zero_matrix", "always">>, <<"bind", "H1IRWA", "value", "=">>>>
    [] line = 366 -> <<<<"read", "pprint", "always">>, <<"read", "H1IRWA", "always">>, <<"read",
         "use_unicode", "always">>>>
    [] line = 381 -> <<<<"read", "pprint", "always">>, <<"read", "H1IRWA", "always">>, <<"read",
         "use_unicode", "always">>>>
    [] line = 396 -> <<<<"bind", "Lij", "value", "=">>>>
    [] line = 397 -> <<<<"read", "formatLij", "always">>, <<"read", "Lij", "always">>, <<"read",
         "Ne", "always">>, <<"bind", "Lij", "value", "=">>>>
    [] line = 398 -> <<<<"read", "array", "always">>, <<"read", "Lij", "always">>>>
    [] line = 407 -> <<<<"read", "sum", "always">>, <<"read", "range", "always">>, <<"read", "Nl",
         "always">>, <<"bind", "l", "first", "Nl">>, <<"read", "Ne", "always">>, <<"bind", "j", "first",
         "Ne">>, <<"bind", "i", "first", "Ne">>, <<"read", "Lij", "always">>, <<"cond", "Lij",
         "always">>, <<"bind", "l", "sel", "Nl">>, <<"bind", "j", "sel", "Ne">>, <<"bind", "i", "sel",
         "Ne">>, <<"read", "e", "sel">>, <<"read", "helicity_dot_product", "sel">>, <<"read", "E_p",
         "sel">>, <<"read", "vector_element", "sel">>, <<"read", "r_I_m", "sel">>, <<"read", "ket",
         "sel">>, <<"read", "bra", "sel">>, <<"bind", "i", "last", "Ne">>, <<"bind", "j", "last", "Ne">>,
         <<"bind", "l", "last", "Nl">>, <<"read", "zero_matrix", "always">>, <<"bind", "H1IRWA", "value",
         "=">>>>
    [] line = 409 -> <<<<"read", "H1IRWA", "always">>, <<"read", "sum", "always">>, <<"read",
         "range", "always">>, <<"read", "Nl", "always">>, <<"bind", "l", "first", "Nl">>, <<"read", "Ne",
         "always">>, <<"bind", "j", "first", "Ne">>, <<"bind", "i", "first", "Ne">>, <<"read", "Lij",
         "always">>, <<"cond", "Lij", "always">>, <<"bind", "l", "sel", "Nl">>, <<"bind", "j", "sel",
         "Ne">>, <<"bind", "i", "sel", "Ne">>, <<"read", "e", "sel">>, <<"read", "helicity_dot_product",
         "sel">>, <<"read", "E_m", "sel">>, <<"read", "vector_element", "sel">>, <<"read", "r_I_p",
         "sel">>, <<"read", "ket", "sel">>, <<"read", "bra", "sel">>, <<"bind", "i", "last", "Ne">>,
         <<"bind", "j", "last", "Ne">>, <<"bind", "l", "last", "Nl">>, <<"read", "zero_matrix",
         "always">>, <<"bind", "H1IRWA", "value", "=">>>>
    [] line = 412 -> <<<<"read", "pprint", "always">>, <<"read", "H1IRWA", "always">>, <<"read",
         "use_unicode", "always">>>>
    [] line = 432 -> <<<<"read", "range", "always">>, <<"bind", "p", "first", "3">>, <<"read",
         "Matrix", "always">>, <<"read", "Ne", "always">>, <<"bind", "i", "first", "Ne">>, <<"bind", "j",
         "first", "Ne">>, <<"read", "delta_greater", "always">>, <<"read", "r", "always">>, <<"bind",
         "j", "last", "Ne">>, <<"bind", "i", "last", "Ne">>, <<"bind", "p", "last", "3">>, <<"bind",
         "r_p", "value", "=">>>>
    [] line = 433 -> <<<<"read", "pprint", "always">>, <<"read", "r_p", "always">>, <<"read",
         "use_unicode", "always">>>>
    [] line = 442 -> <<<<"read", "range", "always">>, <<"bind", "p", "first", "3">>, <<"read",
         "Matrix", "always">>, <<"read", "Ne", "always">>, <<"bind", "i", "first", "Ne">>, <<"bind", "j",
         "first", "Ne">>, <<"read", "delta_lesser", "always">>, <<"read", "r", "always">>, <<"bind", "j",
         "last", "Ne">>, <<"bind", "i", "last", "Ne">>, <<"bind", "p", "last", "3">>, <<"bind", "r_m",
         "value", "=">>>>
    [] line = 443 -> <<<<"read", "pprint", "always">>, <<"read", "r_m", "always">>, <<"read",
         "use_unicode", "always">>>>
    [] line = 452 -> <<<<"read", "pprint", "always">>, <<"read", "range", "always">>, <<"bind", "p",
         "first", "3">>, <<"read", "r", "always">>, <<"read", "r_p", "always">>, <<"read", "r_m",
         "always">>, <<"bind", "p", "last", "3">>, <<"read", "use_unicode", "always">>>>
    [] line = 463 -> <<<<"read", "sum", "always">>, <<"read", "range", "always">>, <<"read", "Nl",
         "always">>, <<"bind", "l", "first", "Nl">>, <<"read", "Ne", "always">>, <<"bind", "j", "first",
         "Ne">>, <<"bind", "i", "first", "Ne">>, <<"read", "Lij", "always">>, <<"cond", "Lij",
         "always">>, <<"bind", "l", "sel", "Nl">>, <<"bind", "j", "sel", "Ne">>, <<"bind", "i", "sel",
         "Ne">>, <<"read", "e", "sel">>, <<"read", "helicity_dot_product", "sel">>, <<"read", "E_p",
         "sel">>, <<"read", "vector_element", "sel">>, <<"read", "r_m", "sel">>, <<"read", "ket",
         "sel">>, <<"read", "bra", "sel">>, <<"bind", "i", "last", "Ne">>, <<"bind", "j", "last", "Ne">>,
         <<"bind", "l", "last", "Nl">>, <<"read", "zero_matrix", "always">>, <<"bind", "H1RWA", "value",
         "=">>>>
    [] line = 465 -> <<<<"read", "H1RWA", "always">>, <<"read", "sum", "always">>, <<"read",
         "range", "always">>, <<"read", "Nl", "always">>, <<"bind", "l", "first", "Nl">>, <<"read", "Ne",
         "always">>, <<"bind", "j", "first", "Ne">>, <<"bind", "i", "first", "Ne">>, <<"read", "Lij",
         "always">>, <<"cond", "Lij", "always">>, <<"bind", "l", "sel", "Nl">>, <<"bind", "j", "sel",
         "Ne">>, <<"bind", "i", "sel", "Ne">>, <<"read", "e", "sel">>, <<"read", "helicity_dot_product",
         "sel">>, <<"read", "E_m", "sel">>, <<"read", "vector_element", "sel">>, <<"read", "r_p",
         "sel">>, <<"read", "ket", "sel">>, <<"read", "bra", "sel">>, <<"bind", "i", "last", "Ne">>,
         <<"bind", "j", "last", "Ne">>, <<"bind", "l", "last", "Nl">>, <<"read", "zero_matrix",
         "always">>, <<"bind", "H1RWA", "value", "=">>>>
    [] line = 468 -> <<<<"read", "pprint", "always">>, <<"read", "H1RWA", "always">>, <<"read",
         "use_unicode", "always">>>>
    [] line = 488 -> <<<<"read", "H0", "always">>, <<"read", "H1RWA", "always">>, <<"bind", "HRWA",
         "value", "=">>>>
    [] line = 489 -> <<<<"read", "pprint", "always">>, <<"read", "HRWA", "always">>, <<"read",
         "use_unicode", "always">>>>
    [] line = 525 -> <<<<"read", "define_psi_coefficients", "always">>, <<"read", "Ne", "always">>,
         <<"bind", "c", "value", "=">>, <<"bind", "ctilde", "value", "=">>, <<"bind", "phase", "value",
         "=">>>>
    [] line = 526 -> <<<<"read", "pprint", "always">>, <<"read", "c", "always">>, <<"read",
         "ctilde", "always">>, <<"read", "phase", "always">>, <<"read", "use_unicode", "always">>>>
    [] line = 535 -> <<<<"read", "Matrix", "always">>, <<"read", "range", "always">>, <<"read",
         "Ne", "always">>, <<"bind", "i", "first", "Ne">>, <<"read", "exp", "always">>, <<"read", "I",
         "always">>, <<"read", "phase", "always">>, <<"read", "t", "always">>, <<"read", "ctilde",
         "always">>, <<"bind", "i", "last", "Ne">>, <<"bind", "psi", "value", "=">>>>
    [] line = 536 -> <<<<"read", "pprint", "always">>, <<"read", "psi", "always">>, <<"read",
         "use_unicode", "always">>>>
    [] line = 550 -> <<<<"read", "Matrix", "always">>, <<"read", "range", "always">>, <<"read",
         "Ne", "always">>, <<"bind", "i", "first", "Ne">>, <<"read", "I", "always">>, <<"read", "hbar",
         "always">>, <<"read", "Derivative", "always">>, <<"read", "psi", "always">>, <<"read", "t",
         "always">>, <<"bind", "i", "last", "Ne">>, <<"bind", "lhs", "value", "=">>>>
    [] line = 551 -> <<<<"read", "pprint", "always">>, <<"read", "lhs", "always">>, <<"read",
         "use_unicode", "always">>>>
    [] line = 563 -> <<<<"read", "HRWA", "always">>, <<"read", "psi", "always">>, <<"bind", "rhs",
         "value", "=">>>>
    [] line = 567 -> <<<<"read", "Matrix", "always">>, <<"read", "range", "always">>, <<"read",
         "Ne", "always">>, <<"bind", "i", "first", "Ne">>, <<"read", "simplify", "always">>, <<"read",
         "lhs", "always">>, <<"read", "exp", "always">>, <<"read", "I", "always">>, <<"read", "phase",
         "always">>, <<"read", "t", "always">>, <<"read", "hbar", "always">>, <<"read", "ctilde",
         "always">>, <<"bind", "i", "last", "Ne">>, <<"bind", "lhs_new", "value", "=">>>>
    [] line = 568 -> <<<<"read", "pprint", "always">>, <<"read", "lhs_new", "always">>, <<"read",
         "use_unicode", "always">>>>
    [] line = 577 -> <<<<"read", "Matrix", "always">>, <<"read", "range", "always">>, <<"read",
         "Ne", "always">>, <<"bind", "i", "first", "Ne">>, <<"read", "simplify", "always">>, <<"read",
         "rhs", "always">>, <<"read", "exp", "always">>, <<"read", "I", "always">>, <<"read", "phase",
         "always">>, <<"read", "t", "always">>, <<"read", "hbar", "always">>, <<"read", "ctilde",
         "always">>, <<"bind", "i", "last", "Ne">>, <<"bind", "rhs_new", "value", "=">>>>
    [] line = 578 -> <<<<"read", "pprint", "always">>, <<"read", "rhs_new", "always">>, <<"read",
         "use_unicode", "always">>>>
    [] line = 613 -> <<<<"read", "solve", "always">>, <<"read", "omega_laser", "always">>, <<"read",
         "phase", "always">>, <<"bind", "phase_transformation", "value", "=">>>>
    [] line = 615 -> <<<<"read", "pprint", "always">>, <<"read", "phase_transformation", "always">>,
         <<"read", "use_unicode", "always">>>>
    [] line = 622 -> <<<<"read", "pprint", "always">>, <<"read", "psi", "always">>, <<"read",
         "phase_transformation", "always">>, <<"read", "use_unicode", "always">>>>
    [] line = 636 -> <<<<"read", "pprint", "always">>, <<"read", "lhs_new", "always">>, <<"read",
         "use_unicode", "always">>>>
    [] line = 645 -> <<<<"read", "simplify", "always">>, <<"read", "rhs_new", "always">>, <<"read",
         "phase_transformation", "always">>, <<"bind", "rhs_new", "value", "=">>>>
    [] line = 646 -> <<<<"read", "pprint", "always">>, <<"read", "rhs_new", "always">>, <<"read",
         "use_unicode", "always">>>>
    [] line = 693 -> <<<<"read", "Matrix", "always">>, <<"read", "range", "always">>, <<"read",
         "Ne", "always">>, <<"bind", "i", "first", "Ne">>, <<"bind", "j", "first", "Ne">>, <<"read",
         "Derivative", "always">>, <<"read", "rhs_new", "always">>, <<"read", "ctilde", "always">>,
         <<"bind", "j", "last", "Ne">>, <<"bind", "i", "last", "Ne">>, <<"bind", "Htilde", "value",
         "=">>>>
    [] line = 694 -> <<<<"read", "pprint", "always">>, <<"read", "Htilde", "always">>, <<"read",
         "use_unicode", "always">>>>
    [] line = 727 -> <<<<"read", "symbols", "always">>, <<"bind", "delta1", "value", "=">>,
         <<"bind", "delta2", "value", "=">>>>
    [] line = 728 -> <<<<"read", "Htilde", "always">>, <<"read", "omega_level", "always">>,
         <<"read", "phase", "always">>, <<"bind", "Htilde", "value", "=">>>>
    [] line = 729 -> <<<<"read", "Htilde", "always">>, <<"read", "delta1", "always">>, <<"read",
         "omega_level", "always">>, <<"read", "omega_laser", "always">>, <<"bind", "Htilde", "value",
         "=">>>>
    [] line = 730 -> <<<<"read", "Htilde", "always">>, <<"read", "delta2", "always">>, <<"read",
         "omega_level", "always">>, <<"read", "omega_laser", "always">>, <<"bind", "Htilde", "value",
         "=">>>>
    [] line = 732 -> <<<<"read", "Htilde", "always">>, <<"bind", "Htilde", "value", "=">>>>
    [] line = 734 -> <<<<"read", "pprint", "always">>, <<"read", "Htilde", "always">>, <<"read",
         "use_unicode", "always">>>>
    [] line = 753 -> <<<<"read", "symbols", "always">>, <<"bind", "Omega1", "value", "=">>,
         <<"bind", "Omega2", "value", "=">>>>
    [] line = 754 -> <<<<"read", "symbols", "always">>, <<"bind", "Omega1", "value", "=">>,
         <<"bind", "Omega2", "value", "=">>>>
    [] line = 755 -> <<<<"read", "Htilde", "always">>, <<"read", "Omega1", "always">>, <<"read",
         "hbar", "always">>, <<"read", "r", "always">>, <<"read", "e", "always">>, <<"read", "E0",
         "always">>, <<"bind", "Htilde", "value", "=">>>>
    [] line = 756 -> <<<<"read", "Htilde", "always">>, <<"read", "Omega2", "always">>, <<"read",
         "hbar", "always">>, <<"read", "r", "always">>, <<"read", "e", "always">>, <<"read", "E0",
         "always">>, <<"bind", "Htilde", "value", "=">>>>
    [] line = 758 -> <<<<"read", "pprint", "always">>, <<"read", "Htilde", "always">>, <<"read",
         "use_unicode", "always">>>>
    [] line = 777 -> <<<<"read", "define_density_matrix", "always">>, <<"read", "Ne", "always">>,
         <<"bind", "rho", "value", "=">>>>
    [] line = 778 -> <<<<"read", "pprint", "always">>, <<"read", "rho", "always">>, <<"read",
         "use_unicode", "always">>>>
    [] line = 792 -> <<<<"read", "I", "always">>, <<"read", "hbar", "always">>, <<"read", "rho",
         "always">>, <<"read", "Htilde", "always">>, <<"bind", "hamiltonian_terms", "value", "=">>>>
    [] line = 796 -> <<<<"read", "gamma", "always">>, <<"read", "lindblad_operator", "always">>,
         <<"read", "ket", "always">>, <<"read", "Ne", "always">>, <<"read", "bra", "always">>, <<"read",
         "rho", "always">>, <<"bind", "lindblad_terms", "value", "=">>>>
    [] line = 797 -> <<<<"read", "lindblad_terms", "always">>, <<"read", "gamma", "always">>,
         <<"read", "lindblad_operator", "always">>, <<"read", "ket", "always">>, <<"read", "Ne",
         "always">>, <<"read", "bra", "always">>, <<"read", "rho", "always">>, <<"bind",
         "lindblad_terms", "value", "=">>>>
    [] line = 799 -> <<<<"read", "pprint", "always">>, <<"read", "lindblad_terms", "always">>,
         <<"read", "use_unicode", "always">>>>
    [] line = 817 -> <<<<"read", "hamiltonian_terms", "always">>, <<"read", "lindblad_terms",
         "always">>, <<"bind", "eqs", "value", "=">>>>
    [] line = 818 -> <<<<"read", "pprint", "always">>, <<"read", "eqs", "always">>, <<"read",
         "use_unicode", "always">>>>
    [] line = 868 -> <<<<"read", "define_density_matrix", "always">>, <<"read", "Ne", "always">>,
         <<"bind", "rho", "value", "=">>>>
    [] line = 869 -> <<<<"read", "pprint", "always">>, <<"read", "rho", "always">>, <<"read",
         "use_unicode", "always">>>>
    [] line = 880 -> <<<<"read", "I", "always">>, <<"read", "hbar", "always">>, <<"read", "rho",
         "always">>, <<"read", "Htilde", "always">>, <<"bind", "hamiltonian_terms", "value", "=">>>>
    [] line = 881 -> <<<<"read", "gamma", "always">>, <<"read", "lindblad_operator", "always">>,
         <<"read", "ket", "always">>, <<"read", "Ne", "always">>, <<"read", "bra", "always">>, <<"read",
         "rho", "always">>, <<"bind", "lindblad_terms", "value", "=">>>>
    [] line = 882 -> <<<<"read", "lindblad_terms", "always">>, <<"read", "gamma", "always">>,
         <<"read", "lindblad_operator", "always">>, <<"read", "ket", "always">>, <<"read", "Ne",
         "always">>, <<"read", "bra", "always">>, <<"read", "rho", "always">>, <<"bind",
         "lindblad_terms", "value", "=">>>>
    [] line = 884 -> <<<<"read", "hamiltonian_terms", "always">>, <<"read", "lindblad_terms",
         "always">>, <<"bind", "eqs", "value", "=">>>>
    [] line = 885 -> <<<<"read", "pprint", "always">>, <<"read", "eqs", "always">>, <<"read",
         "use_unicode", "always">>>>
    [] line = 935 -> <<<<"read", "pprint", "always">>, <<"read", "re", "always">>, <<"read", "eqs",
         "always">>, <<"read", "use_unicode", "always">>>>
    [] line = 943 -> <<<<"read", "pprint", "always">>, <<"read", "re", "always">>, <<"read", "eqs",
         "always">>, <<"read", "use_unicode", "always">>>>
    [] line = 951 -> <<<<"read", "pprint", "always">>, <<"read", "im", "always">>, <<"read", "eqs",
         "always">>, <<"read", "use_unicode", "always">>>>
    [] line = 961 -> <<<<"read", "define_rho_vector", "always">>, <<"read", "rho", "always">>,
         <<"read", "Ne", "always">>, <<"bind", "rho_vect", "value", "=">>>>
    [] line = 962 -> <<<<"read", "pprint", "always">>, <<"read", "rho_vect", "always">>, <<"read",
         "use_unicode", "always">>>>
    [] line = 987 -> <<<<"read", "calculate_A_b", "always">>, <<"read", "eqs", "always">>, <<"read",
         "rho", "always">>, <<"read", "Ne", "always">>, <<"bind", "A", "value", "=">>, <<"bind", "b",
         "value", "=">>>>
    [] line = 988 -> <<<<"read", "pprint", "always">>, <<"read", "A", "always">>, <<"read", "b",
         "always">>, <<"read", "use_unicode", "always">>>>
    [] line = 1049 -> <<<<"read", "A", "always">>, <<"read", "rho_vect", "always">>, <<"read", "b",
         "always">>, <<"bind", "eqs_new", "value", "=">>>>
    [] line = 1050 -> <<<<"read", "pprint", "always">>, <<"read", "eqs_new", "always">>, <<"read",
         "use_unicode", "always">>>>
    [] line = 1111 -> <<<<"read", "range", "always">>, <<"read", "Ne", "always">>, <<"read", "re",
         "always">>, <<"read", "rho", "always">>, <<"read", "I", "always">>, <<"read", "im", "always">>,
         <<"bind", "ss_comp", "value", "=">>>>
    [] line = 1113 -> <<<<"read", "eqs_new", "always">>, <<"read", "Matrix", "always">>, <<"read",
         "re", "always">>, <<"read", "eqs", "always">>, <<"read", "im", "always">>, <<"bind", "test",
         "value", "=">>>>
    [] line = 1117 -> <<<<"read", "test", "always">>, <<"read", "ss_comp", "always">>, <<"bind",
         "test", "value", "=">>>>
    [] line = 1118 -> <<<<"read", "pprint", "always">>, <<"read", "test", "always">>, <<"read",
         "use_unicode", "always">>>>
    [] OTHER -> <<>>

Line(k) == Script[k].line
Kind(k) == Script[k].kind
Defs(k) == Script[k].defs
\* an example that reads nothing
Uses_none(k) == {}
Uses(k) == Script[k].uses
\* a print that shows no value
Shows_none(k) == {}
Shows(k) == Script[k].shows

\* the names Python resolves without any import
Builtins == {"range", "sum"}

\* a name bound to something that is not a symbolic value: a function or a module's object
Module(names, tag) == [n \in names |-> <<tag, n>>]

(***************************************************************************)
(* The bindings the statement at a line makes, given the globals g.        *)
(***************************************************************************)
Binds(line, g) ==
  CASE line = 7 -> Module(FastNames, "fast")
    [] line = 9 -> [use_unicode |-> FALSE]
    [] line = 11 -> Module({"sin", "cos", "exp", "sqrt", "pi", "zeros"}, "sympy")
    [] line = 12 -> Module({"array"}, "numpy")
    [] line = 16 -> [Ne |-> Ne]
    [] line = 17 -> [Nl |-> Nl]
    [] line = 21 -> LET v == define_laser_variables(g.Nl)
                    IN  [E0 |-> v.E0, omega_laser |-> v.omega_laser]
    [] line = 34 -> [t |-> t, hbar |-> hbar, e |-> e]
    [] line = 42 -> [phi |-> PZero, theta |-> HalfPi, alpha |-> HalfPi, beta |-> PZero]
    [] line = 44 -> [k1 |-> k1(g)]
    [] line = 45 -> [k2 |-> k2(g)]
    [] line = 58 -> [ep1 |-> polarization_vector(g.phi, g.theta, g.alpha, g.beta, 1)]
    [] line = 59 -> [ep2 |-> polarization_vector(g.phi, g.theta, g.alpha, g.beta, 1)]
    [] line = 61 -> [em1 |-> VecConj(g.ep1)]
    [] line = 62 -> [em2 |-> VecConj(g.ep2)]
    [] line = 64 -> [ep |-> [l \in range(2) |-> IF l = 0 THEN g.ep1 ELSE g.ep2]]
    [] line = 65 -> [em |-> [l \in range(2) |-> IF l = 0 THEN g.em1 ELSE g.em2]]
    [] line = 78 -> [zero_vect |-> zero_vect]
    [] line = 79 -> [E_cartesian |-> E_cartesian(g), l |-> g.Nl - 1]
    [] line = 105 -> [E |-> E(g), l |-> g.Nl - 1]
    [] line = 129 -> [r |-> define_r_components(g.Ne)]
    [] line = 131 -> [r |-> r_131(g), ri |-> g.r[2]]
    [] line = 143 -> LET v == define_frequencies(g.Ne)
                     IN  [omega_level |-> v.omega_level, omega |-> v.omega, gamma |-> v.gamma]
    [] line = 145 -> [gamma |-> gamma_145(g)]
    [] line = 172 -> [H0 |-> H0(g), i |-> g.Ne - 1, j |-> g.Ne - 1]
    [] line = 184 -> [zero_matrix |-> zeros(g.Ne, g.Ne)]
    [] line = 185 -> [H1 |-> H1(g), l |-> g.Nl - 1]
    [] line = 189 -> [H |-> H(g)]
    [] line = 194 -> [E_cartesian_p |-> E_cartesian_p(g), l |-> g.Nl - 1]
    [] line = 195 -> [E_cartesian_m |-> E_cartesian_m(g), l |-> g.Nl - 1]
    [] line = 197 -> [E_p |-> E_p(g), l |-> g.Nl - 1]
    [] line = 198 -> [E_m |-> E_m(g), l |-> g.Nl - 1]
    [] line = 221 -> [l |-> g.Nl - 1]
    [] line = 232 -> [r_I |-> r_I(g), i |-> g.Ne - 1, j |-> g.Ne - 1, p |-> 2]
    [] line = 271 -> [r_I_p |-> r_I_p(g), i |-> g.Ne - 1, j |-> g.Ne - 1, p |-> 2]
    [] line = 305 -> [r_I_m |-> r_I_m(g), i |-> g.Ne - 1, j |-> g.Ne - 1, p |-> 2]
    [] line = 338 -> [p |-> 2]
    [] line = 352 -> [H1I |-> H1I(g), l |-> g.Nl - 1]
    [] line = 362 -> [H1IRWA |-> H1IRWA_362(g), l |-> g.Nl - 1]
    [] line = 396 -> [Lij |-> Lij_396]
    [] line = 397 -> [Lij |-> formatLij(g.Lij, g.Ne)]
    [] line = 407 -> [H1IRWA |-> H1IRWA_407(g), i |-> g.Ne - 1, j |-> g.Ne - 1, l |-> g.Nl - 1]
    [] line = 409 -> [H1IRWA |-> H1IRWA_409(g), i |-> g.Ne - 1, j |-> g.Ne - 1, l |-> g.Nl - 1]
    [] line = 432 -> [r_p |-> r_p(g), i |-> g.Ne - 1, j |-> g.Ne - 1, p |-> 2]
    [] line = 442 -> [r_m |-> r_m(g), i |-> g.Ne - 1, j |-> g.Ne - 1, p |-> 2]
    [] line = 452 -> [p |-> 2]
    [] line = 463 -> [H1RWA |-> H1RWA_463(g), i |-> g.Ne - 1, j |-> g.Ne - 1, l |-> g.Nl - 1]
    [] line = 465 -> [H1RWA |-> H1RWA_465(g), i |-> g.Ne - 1, j |-> g.Ne - 1, l |-> g.Nl - 1]
    [] line = 488 -> [HRWA |-> HRWA(g)]
    [] line = 525 -> LET v == define_psi_coefficients(g.Ne)
                     IN  [c |-> v.c, ctilde |-> v.ctilde, phase |-> v.phase]
    [] line = 535 -> [psi |-> psi(g), i |-> g.Ne - 1]
    [] line = 550 -> [lhs |-> lhs(g), i |-> g.Ne - 1]
    [] line = 563 -> [rhs |-> rhs(g)]
    [] line = 567 -> [lhs_new |-> lhs_new(g), i |-> g.Ne - 1]
    [] line = 577 -> [rhs_new |-> rhs_new_577(g), i |-> g.Ne - 1]
    [] line = 613 -> [phase_transformation |-> phase_transformation(g)]
    [] line = 645 -> [rhs_new |-> rhs_new_645(g)]
    [] line = 693 -> [Htilde |-> Htilde_693(g), i |-> g.Ne - 1, j |-> g.Ne - 1]
    [] line = 727 -> [delta1 |-> symbols("delta1", TRUE), delta2 |-> symbols("delta2", TRUE)]
    [] line = 728 -> [Htilde |-> Htilde_728(g)]
    [] line = 729 -> [Htilde |-> Htilde_729(g)]
    [] line = 730 -> [Htilde |-> Htilde_730(g)]
    [] line = 732 -> [Htilde |-> Htilde_732(g)]
    [] line = 753 -> [Omega1 |-> symbols("Omega1", TRUE), Omega2 |-> symbols("Omega2", TRUE)]
    [] line = 754 -> [Omega1 |-> symbols("Omega1", FALSE), Omega2 |-> symbols("Omega2", FALSE)]
    [] line = 755 -> [Htilde |-> Htilde_755(g)]
    [] line = 756 -> [Htilde |-> Htilde_756(g)]
    [] line = 777 -> [rho |-> define_density_matrix(g.Ne, FALSE, FALSE)]
    [] line = 792 -> [hamiltonian_terms |-> hamiltonian_terms(g)]
    [] line = 796 -> [lindblad_terms |-> lindblad_terms_796(g)]
    [] line = 797 -> [lindblad_terms |-> lindblad_terms_797(g)]
    [] line = 817 -> [eqs |-> eqs(g)]
    [] line = 868 -> [rho |-> define_density_matrix(g.Ne, TRUE, TRUE)]
    [] line = 880 -> [hamiltonian_terms |-> hamiltonian_terms(g)]
    [] line = 881 -> [lindblad_terms |-> lindblad_terms_881(g)]
    [] line = 882 -> [lindblad_terms |-> lindblad_terms_882(g)]
    [] line = 884 -> [eqs |-> eqs(g)]
    [] line = 961 -> [rho_vect |-> define_rho_vector(g.rho, g.Ne)]
    [] line = 987 -> [A |-> A_987(g), b |-> b_987(g)]
    [] line = 1049 -> [eqs_new |-> eqs_new(g)]
    [] line = 1111 -> [ss_comp |-> ss_comp(g)]
    [] line = 1113 -> [test |-> test_1113(g)]
    [] line = 1117 -> [test |-> test_1117(g)]
    [] OTHER -> Module({}, "none")

(***************************************************************************)
(* The phases the description of the script names, by the lines of the     *)
(* docstring's sections: (a) symbols and laser fields, (b) polarization    *)
(* and position operators, (c) Hamiltonians, (d) rotating-wave             *)
(* approximation, (e) rotating-frame phase transformation, (f) density     *)
(* matrix and Lindblad terms, (g) linearization into A and b.              *)
(***************************************************************************)
Phase(line) ==
  IF line < 54 THEN "a"             \* imports, Ne, Nl, laser variables, t, hbar, e, wave vectors
  ELSE IF line < 74 THEN "b"        \* "The polarization vectors."
  ELSE IF line < 125 THEN "a"       \* "The electric field"
  ELSE IF line < 139 THEN "b"       \* "We define the position operator."
  ELSE IF line < 168 THEN "a"       \* "The frequencies of the energy levels, ..."
  ELSE IF line < 191 THEN "c"       \* atomic, interaction and complete hamiltonian
  ELSE IF line < 520 THEN "d"       \* "# Rotating wave approximation"
  ELSE IF line < 773 THEN "e"       \* "# Rotating Frame"
  ELSE IF line < 957 THEN "f"       \* density matrix, Lindblad operators, Bloch equations
  ELSE "g"                          \* rho_vect, A, b, eqs_new, test

\* the phases in the order the script enters them
PhaseOrder == <<"a", "b", "a", "b", "a", "c", "d", "e", "f", "g">>

(***************************************************************************)
(* The documentation-test runner.  It runs the examples in the order of    *)
(* the docstring, compares what an example prints with its expected text   *)
(* and goes on to the next example whatever the outcome.                   *)
(***************************************************************************)
\* a runner that skips every other example
NextExample_skip(k) == k + 2
NextExample(k) == k + 1

\* every example compared up to white space
Directives_normalize(k) == {"NORMALIZE_WHITESPACE"}

\* the option directives of an example: the docstring has none, and the placeholders
\* that lines 1145-1148 rewrite into directives do not occur in it
Directives(k) == {}

Printed(line, g) ==
  CASE line = 221 -> check_221(g)
    [] line = 338 -> check_338(g)
    [] line = 452 -> check_452(g)
    [] line \in {568, 636} -> g.lhs_new
    [] line = 1118 -> g.test

Want(line) ==
  CASE line = 221 -> [i \in range(3) |-> PZero]
    [] line \in {338, 452} -> [p \in range(3) |-> zeros(Ne, Ne)]
    [] line \in {568, 636} -> [i \in range(Ne) |-> PZero]
    [] line = 1118 -> [mu \in range(Ne * Ne - 1) |-> PZero]

(***************************************************************************)
(* What an example's output can be against its expected text: "exact" the  *)
(* same text, "layout" the same expression laid out differently, "content" *)
(* another expression.  The layout is the printing library's; the content  *)
(* is the value's where the expected value is modelled.                    *)
(***************************************************************************)
Outputs(k, g) ==
  IF Line(k) \in {221, 338, 452, 568, 636, 1118}
  THEN IF Printed(Line(k), g) = Want(Line(k)) THEN {"exact", "layout"} ELSE {"content"}
  ELSE {"exact", "layout", "content"}

Passes(o, flags) == o = "exact" \/ (o = "layout" /\ "NORMALIZE_WHITESPACE" \in flags)

VARIABLES pc, globs, got, outcome, nfail, runs, live, unasserted, dead, nameErrors, phaseLog,
          reported

vars == <<pc, globs, got, outcome, nfail, runs, live, unasserted, dead, nameErrors, phaseLog,
          reported>>

Init ==
  /\ pc = 1
  /\ globs = Module(Builtins, "builtin")
  /\ got = "none"
  /\ outcome = "none"
  /\ nfail = 0
  /\ runs = [k \in DOMAIN Script |-> 0]
  /\ live = [n \in {} |-> 0]
  /\ unasserted = {}
  /\ dead = {}
  /\ nameErrors = {}
  /\ phaseLog = <<>>
  /\ reported = FALSE

(***************************************************************************)
(* The part of an example of steps st that runs before a read of an        *)
(* unbound name raises NameError: whether it raises, the name that raised, *)
(* the names read before, and the bindings made before (the latest of each *)
(* name).  Nothing raises when every name read is in the globals or bound  *)
(* by an earlier step of the example; then the example binds what Binds    *)
(* gives.  A target bound with "=" is bound after the last read of its     *)
(* example, so it is never among the bindings made before a raise.  The    *)
(* condition l+1 in Lij[i][j] raises TypeError, with no name, when Lij is  *)
(* still the list of line 396, whose Lij[0][0] is a number (formatLij      *)
(* gives a list indexed from 0 in the model, the list as written one       *)
(* indexed from 1).  No other exception is followed.                       *)
(***************************************************************************)
Attempt(st, g) ==
  LET listed == 0 \notin DOMAIN g.Lij
      hits == IF listed THEN {}
              ELSE {x \in range(g.Nl) \X range(g.Ne) \X range(g.Ne) : x[1] + 1 \in g.Lij[x[3]][x[2]]}
      rank(x) == (x[1] * g.Ne + x[2]) * g.Ne + x[3]
      sel == CHOOSE x \in hits : \A y \in hits : rank(x) <= rank(y)
      done(n) == st[n][3] # "sel" \/ ("Lij" \in DOMAIN g /\ hits # {})
      unbound(n) == /\ st[n][1] = "read"
                    /\ done(n)
                    /\ st[n][2] \notin DOMAIN g
                    /\ \A m \in 1..(n - 1) : ~(st[m][1] = "bind" /\ st[m][2] = st[n][2])
      raising == {n \in DOMAIN st : unbound(n) \/ (st[n][1] = "cond" /\ "Lij" \in DOMAIN g /\ listed)}
      stop == IF raising = {} THEN Len(st) + 1
              ELSE CHOOSE n \in raising : \A m \in raising : n <= m
      ran == {n \in 1..(stop - 1) : done(n)}
      binders(x) == {n \in ran : st[n][1] = "bind" /\ st[n][2] = x}
      latest(x) == CHOOSE n \in binders(x) : \A m \in binders(x) : m <= n
      value(n) ==
        CASE st[n][3] = "value" -> (CASE st[n][4] = "0" -> PZero
                                      [] st[n][4] = "pi/2" -> HalfPi
                                      [] st[n][4] = "True" -> TRUE
                                      [] st[n][4] = "False" -> FALSE)
          [] st[n][3] = "first" -> IF st[n][4] = "r" THEN g.r[0] ELSE 0
          [] st[n][3] = "sel" -> (CASE st[n][2] = "l" -> sel[1]
                                    [] st[n][2] = "j" -> sel[2]
                                    [] st[n][2] = "i" -> sel[3])
          [] st[n][3] = "last" -> (CASE st[n][4] = "r" -> g.r[2]
                                     [] st[n][4] = "Nl" -> g.Nl - 1
                                     [] st[n][4] = "Ne" -> g.Ne - 1
                                     [] st[n][4] = "3" -> 2)
  IN  [raised |-> raising # {},
       name |-> IF raising = {} \/ st[stop][1] = "cond" THEN "" ELSE st[stop][2],
       reads |-> {st[n][2] : n \in {m \in ran : st[m][1] = "read"}},
       binds |-> [x \in IF raising = {} THEN {} ELSE {st[n][2] : n \in {m \in ran : st[m][1] = "bind"}}
                    |-> value(latest(x))]]

(***************************************************************************)
(* The record of a run: for every name a statement has bound, where it was *)
(* bound and whether that value has since been shown by a print or read at *)
(* all; the bindings consumed or rebound before a print showed them; the   *)
(* bindings rebound before anything read them; the reads of unbound names. *)
(* An example that raised has bound and read what ran before it raised and *)
(* has shown nothing.                                                      *)
(***************************************************************************)
Record(k, a) ==
  LET bound == IF a.raised THEN DOMAIN a.binds
               ELSE IF Kind(k) \in {"assign", "print"} THEN Defs(k) ELSE {}
      reads == IF a.raised THEN a.reads ELSE Uses(k)
      shows == IF a.raised THEN {} ELSE Shows(k)
      shown(n) == live[n].shown \/ n \in shows
      consumed == {n \in (reads \cup bound) \cap DOMAIN live : ~shown(n)}
      unread == {n \in bound \cap DOMAIN live : ~live[n].read /\ n \notin reads}
  IN  /\ unasserted' = unasserted \cup {<<n, live[n].line>> : n \in consumed}
      /\ dead' = dead \cup {<<n, live[n].line>> : n \in unread}
      /\ live' = [n \in DOMAIN live \cup bound |->
                    IF n \in bound THEN [line |-> Line(k), shown |-> FALSE, read |-> FALSE]
                    ELSE [line |-> live[n].line, shown |-> shown(n),
                          read |-> live[n].read \/ n \in reads]]
      /\ nameErrors' = nameErrors \cup (IF a.raised /\ a.name # "" THEN {<<Line(k), a.name>>} ELSE {})
      /\ phaseLog' = IF phaseLog # <<>> /\ phaseLog[Len(phaseLog)] = Phase(Line(k))
                     THEN phaseLog ELSE Append(phaseLog, Phase(Line(k)))
      /\ runs' = [runs EXCEPT ![k] = runs[k] + 1]
      /\ pc' = NextExample(k)

\* an example without expected output: it passes unless it raises; the globals keep what it
\* bound before it raised
Execute(k) ==
  LET a == Attempt(Steps(Line(k)), globs)
  IN  /\ IF ~a.raised
         THEN /\ globs' = Binds(Line(k), globs) @@ globs
              /\ got' = "exact"
              /\ outcome' = "pass"
              /\ nfail' = nfail
         ELSE /\ globs' = a.binds @@ globs
              /\ got' = "exception"
              /\ outcome' = "fail"
              /\ nfail' = nfail + 1
      /\ Record(k, a)
      /\ UNCHANGED reported

RunImport ==
  /\ pc \in DOMAIN Script
  /\ Kind(pc) = "import"
  /\ Execute(pc)

RunAssign ==
  /\ pc \in DOMAIN Script
  /\ Kind(pc) = "assign"
  /\ Execute(pc)

\* a bare call: nothing is bound
RunBare ==
  /\ pc \in DOMAIN Script
  /\ Kind(pc) = "call"
  /\ Execute(pc)

\* a pprint or print with expected output: a traceback is never the expected output
RunPrint ==
  /\ pc \in DOMAIN Script
  /\ Kind(pc) = "print"
  /\ LET a == Attempt(Steps(Line(pc)), globs)
     IN  /\ IF ~a.raised
            THEN /\ \E o \in Outputs(pc, globs) :
                      /\ got' = o
                      /\ outcome' = IF Passes(o, Directives(pc)) THEN "pass" ELSE "fail"
                      /\ nfail' = IF Passes(o, Directives(pc)) THEN nfail ELSE nfail + 1
                 /\ globs' = Binds(Line(pc), globs) @@ globs
            ELSE /\ globs' = a.binds @@ globs
                 /\ got' = "exception"
                 /\ outcome' = "fail"
                 /\ nfail' = nfail + 1
         /\ Record(pc, a)
  /\ UNCHANGED reported

\* the end of the docstring: the bindings still unshown or unread stay so
Report ==
  /\ pc \notin DOMAIN Script
  /\ ~reported
  /\ reported' = TRUE
  /\ unasserted' = unasserted \cup {<<n, live[n].line>> : n \in {x \in DOMAIN live : ~live[x].shown}}
  /\ dead' = dead \cup {<<n, live[n].line>> : n \in {x \in DOMAIN live : ~live[x].read}}
  /\ UNCHANGED <<pc, globs, got, outcome, nfail, runs, live, nameErrors, phaseLog>>

Next == RunImport \/ RunAssign \/ RunBare \/ RunPrint \/ Report

Spec == Init /\ [][Next]_vars

\* the statement at a line has been executed
After(line) == \E k \in DOMAIN Script : Line(k) = line /\ runs[k] > 0

(***************************************************************************)
(* The claims about the script.                                            *)
(***************************************************************************)
Zero8 == [mu \in range(Ne * Ne - 1) |-> PZero]

\* C1: once line 1117 has substituted re(rho[i,j]) + I*im(rho[i,j]) for every rho[i,j], each of
\* the 8 components of test = eqs_new - [re(eqs[1,1]), ..., im(eqs[2,1])] is identically zero,
\* and the print of line 1118 cannot differ from its expected zeros in content.
C1_FinalIdentity ==
  /\ After(1117) => globs.test = Zero8
  /\ After(1118) => got # "content"

\* C1 witness: line 1117 has run, the difference was not zero before the substitution
\* (products such as re(Omega1)*im(rho31) stood against im(Omega1*conjugate(rho31))), and it is zero now
C1_Witness ==
  /\ After(1117)
  /\ globs.test = Zero8
  /\ \A mu \in range(Ne * Ne - 1) : test_1113(globs)[mu] # PZero

\* C2: with A, b of line 987, every component of the vector of equations (the matching real or
\* imaginary part of eqs) equals (A*rho_vect)[k] + b[k]
C2_VectorFormPlus ==
  After(987) =>
    \A mu \in range(Ne * Ne - 1) :
      SubsComp(PSub(PAdd(MatVec(globs.A, globs.rho_vect)[mu], globs.b[mu]), Matrix_1113(globs)[mu]),
               ss_comp(globs)) = PZero

\* C3 (two runs from the same initial state print the same at every step) relates two behaviours
\* of the runner; it is not a property of one behaviour and has no formula here.

\* the bindings of loop variables: Python 2 leaves the variables of a list comprehension bound
\* in the globals; they are read inside their comprehension only
LoopSites == {<<n, Line(k)>> : n \in {"i", "j", "l", "p", "ri"}, k \in DOMAIN Script} \cap
             UNION {{<<n, Line(k)>> : n \in Defs(k)} : k \in DOMAIN Script}

\* the bindings of a statement's targets that are consumed, rebound or left without a print
\* having shown them
UnassertedSites ==
  { <<"use_unicode", 9>>, <<"Ne", 16>>, <<"Nl", 17>>, <<"zero_vect", 78>>,
    <<"phi", 42>>, <<"theta", 42>>, <<"alpha", 42>>, <<"beta", 42>>,
    <<"ep1", 58>>, <<"ep2", 59>>, <<"em1", 61>>, <<"em2", 62>>,
    <<"r", 129>>, <<"gamma", 143>>, <<"zero_matrix", 184>>, <<"H1", 185>>, <<"H", 189>>,
    <<"E_cartesian_p", 194>>, <<"E_cartesian_m", 195>>, <<"H1I", 352>>, <<"Lij", 396>>,
    <<"H1IRWA", 407>>, <<"H1RWA", 463>>, <<"rhs", 563>>, <<"delta1", 727>>, <<"delta2", 727>>,
    <<"Htilde", 728>>, <<"Htilde", 729>>, <<"Htilde", 730>>,
    <<"Omega1", 753>>, <<"Omega2", 753>>, <<"Omega1", 754>>, <<"Omega2", 754>>, <<"Htilde", 755>>,
    <<"hamiltonian_terms", 792>>, <<"lindblad_terms", 796>>,
    <<"hamiltonian_terms", 880>>, <<"lindblad_terms", 881>>, <<"lindblad_terms", 882>>,
    <<"ss_comp", 1111>>, <<"test", 1113>> }

\* the bindings the claim names as asserted
NamedSites ==
  { <<"H1", 185>>, <<"H", 189>>, <<"H1I", 352>>, <<"H1IRWA", 362>>, <<"rhs", 563>>,
    <<"hamiltonian_terms", 792>> }

\* C4 as stated: every derived value, H1, H, H1I, the first H1IRWA, rhs and hamiltonian_terms
\* among them, is shown by a print with expected output before it is consumed or rebound
C4_EveryStepAsserted == unasserted \cap NamedSites = {}

\* C4 amended: a print with expected output shows every bound value before it is consumed or
\* rebound, except the bindings of UnassertedSites and the loop variables, which are consumed,
\* rebound or left unshown
C4_AssertedExcept ==
  /\ unasserted \subseteq UnassertedSites \cup LoopSites
  /\ reported => unasserted = UnassertedSites \cup LoopSites

\* C4 witness: the run is over, H1 was consumed by H=H0+H1 unshown, H was never shown, zero_vect
\* was consumed by the sums of line 221 unshown, and the first H1IRWA, eqs_new and the final test
\* were shown
C4_Witness ==
  /\ reported
  /\ {<<"H1", 185>>, <<"H", 189>>, <<"rhs", 563>>, <<"zero_vect", 78>>} \subseteq unasserted
  /\ <<"H1IRWA", 362>> \notin unasserted
  /\ live["eqs_new"].shown /\ live["test"].shown

\* C5 as stated: no phase starts before the previous one has completed, so no phase is entered twice
C5_PhasesContiguous ==
  \A i, j \in DOMAIN phaseLog : i # j => phaseLog[i] # phaseLog[j]

\* C5 amended: the examples run top to bottom, each exactly once, and the phases are first entered
\* in the order a to g, but (a) and (b) alternate: the polarization vectors come before the
\* electric field, and the position operator before the frequencies
C5_Order ==
  /\ pc \in 1 .. Len(Script) + 1
  /\ \A k \in DOMAIN Script : runs[k] = IF k < pc THEN 1 ELSE 0
  /\ phaseLog = SubSeq(PhaseOrder, 1, Len(phaseLog))

\* C5 witness: every example has run once and the phases were entered as a, b, a, b, a, c, ..., g
C5_Witness ==
  /\ reported
  /\ \A k \in DOMAIN Script : runs[k] = 1
  /\ phaseLog = PhaseOrder

\* the bindings that nothing reads before they are rebound or the script ends
DeadSites == {<<"H", 189>>, <<"H1I", 352>>, <<"Omega1", 753>>, <<"Omega2", 753>>}

\* C6 as stated: every value a statement produces is read by a later example (a loop variable
\* is read by its own comprehension)
C6_NothingUnused == dead \ LoopSites = {}

\* C6 amended: every name an example reads is a builtin or was bound by an earlier example, and
\* every value bound is read by a later example except H, H1I, the real Omega1, Omega2 of line
\* 753 and the loop variables that the list comprehensions leave bound
C6_ForwardFlow ==
  /\ nameErrors = {}
  /\ pc \in DOMAIN Script =>
       \A n \in Uses(pc) \ Builtins : \E j \in 1 .. pc - 1 : n \in Defs(j) /\ runs[j] = 1
  /\ dead \subseteq DeadSites \cup LoopSites
  /\ reported => dead = DeadSites \cup LoopSites

\* C6 witness: the run is over, no read met an unbound name, H1 was read (by H=H0+H1) and H was not
C6_Witness ==
  /\ reported
  /\ nameErrors = {}
  /\ dead = DeadSites \cup LoopSites
  /\ <<"H1", 185>> \notin dead /\ <<"l", 185>> \in dead

\* C7: an example passes if and only if its output is exactly the expected text; a mismatch counts
\* as one failure of that example; the runner goes on to the next example, never back; and a print,
\* passed or failed, leaves the globals as they were
C7_FailureSemantics ==
  [][(pc \in DOMAIN Script) =>
       (/\ outcome' \in {"pass", "fail"}
        /\ (outcome' = "pass") <=> (got' = "exact")
        /\ nfail' = IF outcome' = "fail" THEN nfail + 1 ELSE nfail
        /\ pc' = pc + 1
        /\ runs[pc] = 0 /\ runs' = [runs EXCEPT ![pc] = 1]
        /\ Kind(pc) = "print" => globs' = globs)]_vars

\* C7 witness: a print has failed on its layout, and the examples after it ran on and the last
\* print passed on an exact match with the final test of zeros as the script computes it
C7_Witness ==
  /\ nfail > 2
  /\ pc = Len(Script) + 1
  /\ outcome = "pass" /\ got = "exact"
  /\ globs.test = Zero8

\* no factor exp(I*w*t) and no t
TimeFree(p) == \A u \in p : \A s \in DOMAIN u.m : s[1] # "X" /\ s # <<"s", "t">>

\* C8: with the phase transformation of line 613 the exponents omega^1 - theta1 + theta3 and
\* omega^2 - theta2 + theta3 are zero, and once line 645 has substituted it every component of
\* rhs_new, and then every entry of Htilde, is free of t
C8_TimeIndependent ==
  /\ After(613) =>
       \A l \in range(Nl) :
         SubsDict(PAdd(PSub(globs.omega_laser[l], globs.phase[l]), globs.phase[2]),
                  globs.phase_transformation) = PZero
  /\ After(645) => \A i \in range(Ne) : TimeFree(globs.rhs_new[i])
  /\ After(693) => \A i, j \in range(Ne) : TimeFree(globs.Htilde[i][j])

\* C8 witness: line 645 has run, rhs_new as line 577 built it depended on t in every component,
\* and rhs_new now holds the couplings and is free of t
C8_Witness ==
  /\ After(645)
  /\ \A i \in range(Ne) : ~TimeFree(rhs_new_577(globs)[i])
  /\ \A i \in range(Ne) : TimeFree(globs.rhs_new[i]) /\ Cardinality(globs.rhs_new[i]) >= 3

LaserNames == {"omega^1", "omega^2"}

\* a term whose time factors are one exp(-+I*omega^l*t) and one exp(+-I*omega_ij*t) of opposite signs
RWATerm(u) ==
  LET xs == {s \in DOMAIN u.m : s[1] = "X"}
      lasers == {s \in xs : s[2] \in LaserNames}
  IN  /\ Cardinality(lasers) = 1
      /\ Cardinality(xs \ lasers) = 1
      /\ \A x \in lasers : \A y \in xs \ lasers : u.m[x] \in {-1, 1} /\ u.m[x] + u.m[y] = 0

\* C9: every term of every entry of H1IRWA, as line 362 builds it and as lines 407-410 rebuild it
\* from Lij, oscillates at a detuning +-(omega_ij - omega^l) and none at omega_ij + omega^l
C9_RotatingWave ==
  After(362) => \A i, j \in range(Ne) : \A u \in globs.H1IRWA[i][j] : RWATerm(u)

\* C9 witness: lines 407-410 have run, the entry [2,0] keeps one field where line 362 had both,
\* and the interaction hamiltonian H1I before the approximation has a term at a sum frequency
C9_Witness ==
  /\ After(409)
  /\ Cardinality(globs.H1IRWA[2][0]) = 1
  /\ Cardinality(H1IRWA_362(globs)[2][0]) = 2
  /\ \E u \in globs.H1I[2][0] : ~RWATerm(u)

\* C10: the sum over the fields of E minus the sum of E_p + E_m is the zero vector, and the print
\* of this difference at line 221 cannot differ from its expected zeros in content
C10_FieldDecomposition ==
  /\ After(198) => check_221(globs) = [i \in range(3) |-> PZero]
  /\ (After(221) /\ ~After(232)) => got # "content"

\* C10 witness: line 221 has just printed the difference, which is zero, of fields that are not:
\* E has both frequency parts and E_p, E_m one each
C10_Witness ==
  /\ After(221) /\ ~After(232) /\ got = "exact"
  /\ check_221(globs) = [i \in range(3) |-> PZero]
  /\ \A l \in range(Nl) :
       /\ Cardinality(globs.E[l][1]) = 2
       /\ Cardinality(globs.E_p[l][1]) = 1
       /\ globs.E_m[l][1] = conjugate(globs.E_p[l][1])

ZeroMatrices == [p \in range(3) |-> zeros(Ne, Ne)]

\* C11: for every helicity component p and every pair (i,j), r_I[p][i,j] = r_I_p[p][i,j] +
\* r_I_m[p][i,j] once the three are bound (line 305), and r[p][i,j] = r_p[p][i,j] + r_m[p][i,j]
\* once line 442 has bound r_m; the prints of the two differences cannot differ from zeros in content
C11_OperatorDecomposition ==
  /\ After(305) =>
       \A p \in range(3) : \A i, j \in range(Ne) :
         globs.r_I[p][i][j] = PAdd(globs.r_I_p[p][i][j], globs.r_I_m[p][i][j])
  /\ After(442) =>
       \A p \in range(3) : \A i, j \in range(Ne) :
         globs.r[p][i][j] = PAdd(globs.r_p[p][i][j], globs.r_m[p][i][j])
  /\ (After(338) /\ ~After(352)) => got # "content"
  /\ (After(452) /\ ~After(463)) => got # "content"

\* C11 witness: line 452 has printed the second difference; the entries above the diagonal come
\* from the positive parts alone, with the phase written through omega[j,i], those below from the
\* negative parts, and the diagonal is zero in all of them
C11_Witness ==
  /\ After(452) /\ ~After(463) /\ got = "exact"
  /\ check_338(globs) = ZeroMatrices /\ check_452(globs) = ZeroMatrices
  /\ \A p \in range(3) :
       /\ globs.r_I[p][0][2] # PZero /\ globs.r_I_p[p][0][2] = globs.r_I[p][0][2]
       /\ globs.r_I[p][2][0] # PZero /\ globs.r_I_m[p][2][0] = globs.r_I[p][2][0]
       /\ globs.r_I_m[p][0][2] = PZero /\ globs.r_I_p[p][2][0] = PZero
       /\ globs.r_p[p][1][2] = globs.r[p][1][2] /\ globs.r_m[p][2][1] = globs.r[p][2][1]
       /\ \A i \in range(Ne) : globs.r_I[p][i][i] = PZero /\ globs.r[p][i][i] = PZero

\* C12: the solution of line 613 is exactly theta2 = -omega^1 + omega^2 + theta1 and
\* theta3 = -omega^1 + theta1; put into omega^1 - theta1 + theta3 and omega^2 - theta2 + theta3 it
\* leaves the zero polynomial, so both equations hold for every omega^1, omega^2 and theta1; and
\* theta1 is not solved for: it is no key of the solution and appears in both values
C12_PhaseSolution ==
  After(613) =>
    LET sol == globs.phase_transformation
        w1 == PSym("omega^1")
        w2 == PSym("omega^2")
        th(n) == PSym(<<"theta1", "theta2", "theta3">>[n])
    IN  /\ DOMAIN sol = {"theta2", "theta3"}
        /\ sol["theta2"] = PAdd(PAdd(PNeg(w1), w2), th(1))
        /\ sol["theta3"] = PAdd(PNeg(w1), th(1))
        /\ SubsDict(PAdd(PSub(w1, th(1)), th(3)), sol) = PZero
        /\ SubsDict(PAdd(PSub(w2, th(2)), th(3)), sol) = PZero
        /\ \A n \in DOMAIN sol : Diff(sol[n], <<"s", "theta1">>) = POne

\* C12 witness: line 613 has just solved the two equations, which are the script's laser
\* frequencies and phases; the equations themselves are not zero and the solution has three and two terms
C12_Witness ==
  /\ After(613) /\ ~After(615)
  /\ globs.omega_laser[0] = PSym("omega^1") /\ globs.omega_laser[1] = PSym("omega^2")
  /\ globs.phase[1] = PSym("theta2") /\ globs.phase[2] = PSym("theta3")
  /\ Cardinality(PAdd(PSub(globs.omega_laser[1], globs.phase[1]), globs.phase[2])) = 3
  /\ Cardinality(globs.phase_transformation["theta2"]) = 3
  /\ Cardinality(globs.phase_transformation["theta3"]) = 2

\* none of the names occurs in the expression, as a symbol, a conjugate or a frequency of exp(I*w*t)
FreeOf(p, names) == \A u \in p : \A s \in DOMAIN u.m : s[2] \notin names

\* C13: once lines 728-732 have put theta1 = -omega_1, omega^1 = delta1 + omega_3 - omega_1 and
\* omega^2 = delta2 + omega_3 - omega_2, Htilde has the diagonal (0, hbar*(delta2 - delta1),
\* -hbar*delta1), zero entries [0,1] and [1,0], and none of t, theta1, omega_1, omega_2, omega_3,
\* omega^1, omega^2; once lines 755-756 have put in the Rabi frequencies its entries [2,0], [2,1]
\* are hbar*Omega1/2, hbar*Omega2/2 and [0,2], [1,2] their conjugates
C13_EffectiveHamiltonian ==
  /\ After(732) =>
       /\ globs.Htilde[0][0] = PZero
       /\ globs.Htilde[1][1] = PMul(hbar, PSub(PSym("delta2"), PSym("delta1")))
       /\ globs.Htilde[2][2] = PNeg(PMul(hbar, PSym("delta1")))
       /\ globs.Htilde[0][1] = PZero /\ globs.Htilde[1][0] = PZero
       /\ \A i, j \in range(Ne) :
            FreeOf(globs.Htilde[i][j],
                   {"t", "theta1", "omega_1", "omega_2", "omega_3", "omega^1", "omega^2"})
  /\ After(756) =>
       /\ globs.Htilde[2][0] = PMul3(PHalf, hbar, PSym("Omega1"))
       /\ globs.Htilde[2][1] = PMul3(PHalf, hbar, PSym("Omega2"))
       /\ globs.Htilde[0][2] = PMul3(PHalf, hbar, conjugate(PSym("Omega1")))
       /\ globs.Htilde[1][2] = PMul3(PHalf, hbar, conjugate(PSym("Omega2")))

\* C13 witness: line 756 has run; the hamiltonian read off rhs_new (line 693) had hbar*omega_1 +
\* hbar*theta1 on its diagonal and four terms in its entry [1,1]; Omega1 is complex, so the
\* entries above the diagonal differ from those below it
C13_Witness ==
  /\ After(756)
  /\ Htilde_693(globs)[0][0] = PMul(hbar, PAdd(PSym("omega_1"), PSym("theta1")))
  /\ Cardinality(Htilde_693(globs)[1][1]) = 4
  /\ globs.Htilde[1][1] # PZero
  /\ globs.Htilde[0][2] # globs.Htilde[2][0]
  /\ globs.Htilde[0][2] = conjugate(globs.Htilde[2][0])

\* the names of the symbols of a matrix, a conjugate counted as its symbol
NamesOf(A) == {s[2] : s \in UNION {DOMAIN u.m : u \in UNION {A[i][j] : i, j \in range(Ne)}}}

\* C14: the density matrix that line 868 binds has trace 1, with rho[0,0] = 1 - rho22 - rho33,
\* has rho[i,j] = conjugate(rho[j,i]) for every i < j, and its symbols are exactly rho22, rho33,
\* rho21, rho31, rho32
C14_NormalizedHermitian ==
  After(868) =>
    /\ SumTo([i \in range(Ne) |-> globs.rho[i][i]], Ne) = POne
    /\ globs.rho[0][0] = PSub(PSub(POne, PSym("rho22")), PSym("rho33"))
    /\ \A i, j \in range(Ne) : i < j => globs.rho[i][j] = conjugate(globs.rho[j][i])
    /\ NamesOf(globs.rho) = {"rho22", "rho33", "rho21", "rho31", "rho32"}

\* C14 witness: line 868 has just rebound rho; the coherences are complex, so the entries above
\* the diagonal are not those below it, and the matrix of line 777 had nine symbols and trace
\* rho11 + rho22 + rho33
C14_Witness ==
  /\ After(868) /\ ~After(869)
  /\ globs.rho[0][1] # globs.rho[1][0]
  /\ globs.rho[2][1] = PSym("rho32")
  /\ Cardinality(NamesOf(define_density_matrix(Ne, FALSE, FALSE))) = 9
  /\ Cardinality(SumTo([i \in range(Ne) |-> define_density_matrix(Ne, FALSE, FALSE)[i][i]], Ne)) = 3

\* C15: rho_vect of line 961 has exactly Ne^2 - 1 = 8 components: rho22, rho33, then re(rho21),
\* re(rho31), re(rho32), then im(rho21), im(rho31), im(rho32); neither rho11 nor a conjugate (an
\* element above the diagonal) appears in it
C15_Vectorization ==
  After(961) =>
    /\ DOMAIN globs.rho_vect = 0 .. (Ne * Ne - 2)
    /\ Cardinality(DOMAIN globs.rho_vect) = 8
    /\ \A mu \in range(Ne * Ne - 1) :
         globs.rho_vect[mu] =
           << PSym("rho22"), PSym("rho33"), Re("rho21"), Re("rho31"), Re("rho32"),
              Im("rho21"), Im("rho31"), Im("rho32") >>[mu + 1]
    /\ \A mu \in range(Ne * Ne - 1) : \A u \in globs.rho_vect[mu] : \A s \in DOMAIN u.m :
         /\ s # <<"s", "rho11">>
         /\ s[1] # "c"
         /\ s[1] \in {"re", "im"} => DOMAIN s[2] \subseteq {<<"s", "rho21">>, <<"s", "rho31">>, <<"s", "rho32">>}

\* C15 witness: line 961 has just built rho_vect from the normalized hermitian rho, whose entry
\* [0,0] is 1 - rho22 - rho33 and whose entries above the diagonal are conjugates; the eight
\* components are distinct
C15_Witness ==
  /\ After(961) /\ ~After(962)
  /\ Cardinality(globs.rho[0][0]) = 3
  /\ globs.rho[0][2] = conjugate(PSym("rho31"))
  /\ Cardinality({globs.rho_vect[mu] : mu \in range(Ne * Ne - 1)}) = 8
  /\ globs.rho_vect[3] = re(globs.rho[2][0])
  /\ globs.rho_vect[6] = im(globs.rho[2][0])

\* the sum of the Lindblad operators of the two decay channels out of state 3
TwoChannels(rho) ==
  MatAdd(MatScale(PSym("gamma_31"), lindblad_operator(ketbra(1, 3), rho)),
         MatScale(PSym("gamma_32"), lindblad_operator(ketbra(2, 3), rho)))

\* C16: in the general form (lines 796-797) and in the normalized hermitian form (lines 881-882)
\* the dissipative part is gamma_31*L(|1><3|) + gamma_32*L(|2><3|) of the current rho, and both
\* rates appear in eqs (line 884)
C16_TwoDecayChannels ==
  /\ (After(797) /\ ~After(868)) => globs.lindblad_terms = TwoChannels(globs.rho)
  /\ After(882) => globs.lindblad_terms = TwoChannels(globs.rho)
  /\ After(884) => {"gamma_31", "gamma_32"} \subseteq NamesOf(globs.eqs)

\* C17: the table that line 397 makes of [[1,3,[1]],[2,3,[2]]] is Ne x Ne and symmetric, holds
\* [1] at the positions [0,2] and [2,0], [2] at [1,2] and [2,1], and the empty list at every other
\* position, the diagonal included
C17_FormatLij ==
  After(397) =>
    /\ DOMAIN globs.Lij = range(Ne)
    /\ \A i \in range(Ne) : DOMAIN globs.Lij[i] = range(Ne)
    /\ \A i, j \in range(Ne) :
         /\ globs.Lij[i][j] = globs.Lij[j][i]
         /\ globs.Lij[i][j] =
              IF {i, j} = {0, 2} THEN {1} ELSE IF {i, j} = {1, 2} THEN {2} ELSE {}

\* C17 witness: line 397 has just replaced the two triples of line 396 by the table; the triples
\* name each pair once, with the lower state first
C17_Witness ==
  /\ After(397) /\ ~After(398)
  /\ Lij_396 = <<<<1, 3, {1}>>, <<2, 3, {2}>>>>
  /\ formatLij(Lij_396, Ne) = globs.Lij
  /\ globs.Lij[2][0] = {1} /\ globs.Lij[0][2] = {1}
  /\ globs.Lij[2][1] = {2} /\ globs.Lij[1][2] = {2}
  /\ globs.Lij[0][1] = {} /\ globs.Lij[2][2] = {}

\* the fields whose amplitude E_0^l (or its conjugate) a term holds
FieldsOf(u) == {l \in 1 .. Nl : \E s \in DOMAIN u.m : s[2] = <<"E_0^1", "E_0^2">>[l]}

\* an interaction matrix that keeps, in each entry [i,j], one term for each field of Lij[i][j]
\* and no other term
SelectedBy(M, L) ==
  \A i, j \in range(Ne) :
    /\ \A u \in M[i][j] : \E l \in L[i][j] : FieldsOf(u) = {l}
    /\ \A l \in L[i][j] : Cardinality({u \in M[i][j] : FieldsOf(u) = {l}}) = 1

\* C18: in H1IRWA as lines 407-410 build it and in H1RWA as lines 463-466 build it, field l
\* has a term in entry [i,j] only if l+1 is in Lij[i][j]: entries [2,0], [0,2] hold exactly one
\* term, of field 1, entries [2,1], [1,2] exactly one term, of field 2, and every other entry is
\* zero; the unfiltered H1IRWA of line 362 holds in [2,0] and in [2,1] one term of each field
C18_TransitionSelection ==
  /\ After(409) =>
       /\ SelectedBy(globs.H1IRWA, globs.Lij)
       /\ \A i, j \in range(Ne) :
            Cardinality(globs.H1IRWA[i][j]) = IF 2 \in {i, j} /\ i # j THEN 1 ELSE 0
  /\ After(465) =>
       /\ SelectedBy(globs.H1RWA, globs.Lij)
       /\ \A i, j \in range(Ne) :
            Cardinality(globs.H1RWA[i][j]) = IF 2 \in {i, j} /\ i # j THEN 1 ELSE 0
  /\ (After(362) /\ ~After(407)) =>
       \A j \in {0, 1} :
         /\ Cardinality(globs.H1IRWA[2][j]) = 2
         /\ {FieldsOf(u) : u \in globs.H1IRWA[2][j]} = {{1}, {2}}

\* C18 witness: H1RWA is complete (line 465); its entry [2,0] is the one term of field 1 and its
\* entry [1,2] the one term of field 2, while the sum over both fields that line 362 takes has
\* two terms in the entry [2,0]
C18_Witness ==
  /\ After(465)
  /\ {FieldsOf(u) : u \in globs.H1RWA[2][0]} = {{1}}
  /\ {FieldsOf(u) : u \in globs.H1RWA[1][2]} = {{2}}
  /\ {FieldsOf(u) : u \in globs.H1IRWA[0][2]} = {{1}}
  /\ globs.H1RWA[0][1] = PZero /\ globs.H1RWA[2][2] = PZero
  /\ {FieldsOf(u) : u \in H1IRWA_362(globs)[2][0]} = {{1}, {2}}

\* M[i,j] = -M[j,i] for all i, j, which makes the diagonal zero
IsAntisymmetric(M) ==
  /\ \A i, j \in range(Ne) : M[i][j] = PNeg(M[j][i])
  /\ \A i \in range(Ne) : M[i][i] = PZero

\* M[i,j] is the symbol base_{(i+1)(j+1)} for the pairs i > j of P
NamedBelow(M, base, P) ==
  \A q \in P : M[q[1]][q[2]] = PSym(<<base \o "_21", base \o "_31", base \o "_32">>[q[1] + q[2]])

\* C19 as stated: omega is antisymmetric with zero diagonal and omega[i,j] = omega_{(i+1)(j+1)}
\* for i > j, and the same holds for gamma before and after the substitution of line 145
C19_AntisymmetricNamed ==
  After(143) =>
    /\ IsAntisymmetric(globs.omega) /\ NamedBelow(globs.omega, "omega", {<<1, 0>>, <<2, 0>>, <<2, 1>>})
    /\ IsAntisymmetric(globs.gamma) /\ NamedBelow(globs.gamma, "gamma", {<<1, 0>>, <<2, 0>>, <<2, 1>>})

\* C19 amended: omega and gamma are antisymmetric with zero diagonal, before and after the
\* substitution of line 145; omega[i,j] = omega_{(i+1)(j+1)} for i > j; gamma[i,j] =
\* gamma_{(i+1)(j+1)} for i > j before the substitution, and after it for [2,0] and [2,1] only,
\* gamma[1,0] and gamma[0,1] being 0
C19_Antisymmetric ==
  After(143) =>
    /\ IsAntisymmetric(globs.omega) /\ NamedBelow(globs.omega, "omega", {<<1, 0>>, <<2, 0>>, <<2, 1>>})
    /\ IsAntisymmetric(globs.gamma) /\ NamedBelow(globs.gamma, "gamma", {<<2, 0>>, <<2, 1>>})
    /\ IF After(145) THEN globs.gamma[1][0] = PZero /\ globs.gamma[0][1] = PZero
       ELSE NamedBelow(globs.gamma, "gamma", {<<1, 0>>})

\* C19 witness: line 145 has substituted 0 for the symbol at gamma[1,0], which define_frequencies
\* had returned as gamma_21; the entries above the diagonal are the negated symbols
C19_Witness ==
  /\ After(145)
  /\ define_frequencies(Ne).gamma[1][0] = PSym("gamma_21")
  /\ globs.gamma[1][0] = PZero
  /\ globs.gamma[0][2] = PNeg(PSym("gamma_31")) /\ globs.gamma[2][0] = PSym("gamma_31")
  /\ globs.omega[0][1] = PNeg(PSym("omega_21")) /\ globs.omega[0][1] # globs.omega[1][0]

\* C20: once line 131 has applied the substitution to r, the components r_{p;31} are zero: the
\* entries [2,0] and [0,2] of r[p] vanish for every helicity component p
C20_LadderPositionOperator ==
  After(131) => \A p \in range(3) : globs.r[p][2][0] = PZero /\ globs.r[p][0][2] = PZero
====
